---- MODULE Spec2Model ----
(***************************************************************************)
(* A model of treport (github.com/goccy/treport): the repository history   *)
(* traversals (repository.go), the plan builder with its cache             *)
(* invalidation cascade (CreatePipelines), the per-analyzer result cache   *)
(* and version registry, and the scan orchestrator with its three nested   *)
(* errgroup levels.                                                        *)
(*                                                                         *)
(* Three specifications share the module:                                  *)
(*   SpecTrav  one traversal (HeadOnly / AllCommits / AllMergeCommits) of  *)
(*             one repository history;                                     *)
(*   SpecPlan  consecutive runs of Scanner.Scan over one configuration:    *)
(*             plan build, scan, and analyzer binaries being replaced      *)
(*             between runs;                                               *)
(*   SpecScan  one run of the orchestrator, task by task.                  *)
(***************************************************************************)
EXTENDS Integers, Sequences, FiniteSets, TLC

VARIABLES
    \* ---- traversal (SpecTrav) ----
    hist,       \* the repository: commits, parents, committer times, pull refs
    tpc,        \* position of the traversal: "idle", "loop", "done"
    strategy,   \* which traversal runs
    list,       \* allCommits / prCommits, in the order r.Log delivered them
    idx,        \* the loop variable i (1-based position in list)
    prevTree,   \* prevTree, NoTree for nil
    calls,      \* the callbacks made so far: <<[commit, changes]>>
    terr,       \* the traversal's return value once tpc = "done"
    \* ---- plan build across runs (SpecPlan) ----
    cfg,        \* the configuration: its pipelines
    mtime,      \* modification time of each analyzer binary on disk
    registry,   \* the version registry (plugin/version), by analyzer name
    disk,       \* the entries of the cache stores on disk, by cache path
    ppc,        \* "idle", "plan", "cascade", "built", "scanned"
    run,        \* number of the current run of Scanner.Scan
    pos,        \* the pipeline, repository and step the build is at
    needToDeleteStepCache,
    cachePath,  \* Plugin.CachePath of each (shared) Plugin object
    clientMtime,\* Client.mtime, recorded by Setup
    runMtime,   \* the binaries' mtimes when this run started
    prevMtime,  \* the binaries' mtimes when the previous run started
    found,      \* the analyzers IsUpdated reported in this build, and where
    disk0,      \* disk as it was when this build started
    registry0,  \* the version registry as it was when this build started
    rpcs,       \* the Scan RPCs issued by the last scan: <<analyzer, key>>
    \* ---- one run of the orchestrator (SpecScan) ----
    scfg,       \* the configuration whose plan is scanned
    scache,     \* the entries of the analyzers' cache stores: [plugin, key]
    spc,        \* Scanner.Scan: "start", "scan", "returned"
    task,       \* the analyzer tasks: position, scan context, error
    stepAt,     \* the step each scanWithPipelineAndRepo goroutine is at
    gerr,       \* the err field of each errgroup.Group
    gret,       \* the return value of the function that owns each group
    cancelled,  \* the groups whose cancellation signal has fired
    first,      \* the error that was returned to each group first
    stopped,    \* the analyzers whose client Cleanup has stopped
    procs,      \* the analyzer subprocesses spawned: [plugin, n], n the Setup call
    killed,     \* the subprocesses that have been killed
    declared,   \* cfg.Plugin.Scanner: the names of the scanner declarations
    pluginMap,  \* the catalog CreatePipelines resolved the steps against
    \* ---- a repository declaration being resolved (SpecPath) ----
    repoURL,    \* RepositoryConfig.Repo, a sequence of characters
    rpc,        \* "cfg", "resolved", "opened", "planned", "returned"
    repoPath,   \* the path RepoPath / NewRepository computed
    repoErr,    \* the error on its way up: wrappers first, root error last
    \* ---- one scan context and the envelopes stored into it (SpecData) ----
    dctx,       \* the ScanContext: Data by name, pluginToType by analyzer
    drev,       \* the callbacks the traversal has made with the context
    produced,   \* the message of the last Scan stored under each name
    dbefore,    \* the target of the last GetData as the caller passed it
    dtarget,    \* the target of the last GetData after the call
    dret,       \* what the last GetData returned: "none", "nil", "NoData", "mismatch"
    \* ---- the Sync calls on one repository handle (SpecSync) ----
    fetched,    \* Repository.fetched
    fetches,    \* the FetchContext calls that have completed without an error
    sync,       \* each Sync call: where it is, what it did, what it returned
    \* ---- the cache store of one analyzer during a run (SpecStore) ----
    pcache,     \* Plugin.cache: 0 for nil, else the handle it holds
    handles,    \* the handles badger.Open returned that are not closed
    reopens,    \* the badger.Open calls made while a handle was open
    user,       \* each task that uses the analyzer: where its GetCache is
    cleaned,    \* Pipeline.Cleanup has run
    \* ---- the IDs of the pipelines of one plan build (SpecID) ----
    idcfg,      \* cfg.Pipelines with their names and the analyzers' arguments
    ids,        \* pipeline.ID of the pipelines built so far
    idpc        \* CreatePipelines: "build", "built", "failed", "panicked"

travVars == <<hist, tpc, strategy, list, idx, prevTree, calls, terr>>

planVars == <<cfg, mtime, registry, disk, ppc, run, pos, needToDeleteStepCache,
              cachePath, clientMtime, runMtime, prevMtime, found, disk0, registry0, rpcs>>

scanVars == <<scfg, scache, spc, task, stepAt, gerr, gret, cancelled, first,
              stopped, procs, killed, declared, pluginMap>>

pathVars == <<repoURL, rpc, repoPath, repoErr>>

dataVars == <<dctx, drev, produced, dbefore, dtarget, dret>>

syncVars == <<fetched, fetches, sync>>

storeVars == <<pcache, handles, reopens, user, cleaned>>

idVars == <<idcfg, ids, idpc>>

\* what the traversal, the plan build, the orchestrator, the resolution of a
\* repository declaration leave alone
notTrav == <<planVars, scanVars, pathVars, dataVars, syncVars, storeVars, idVars>>

notPlan == <<travVars, scanVars, pathVars, dataVars, syncVars, storeVars, idVars>>

notScan == <<travVars, planVars, pathVars, dataVars, syncVars, storeVars, idVars>>

notPath == <<travVars, planVars, scanVars, dataVars, syncVars, storeVars, idVars>>

notData == <<travVars, planVars, scanVars, pathVars, syncVars, storeVars, idVars>>

notSync == <<travVars, planVars, scanVars, pathVars, dataVars, storeVars, idVars>>

notStore == <<travVars, planVars, scanVars, pathVars, dataVars, syncVars, idVars>>

notID == <<travVars, planVars, scanVars, pathVars, dataVars, syncVars, storeVars>>

(***************************************************************************)
(* Bounds of the model.                                                    *)
(***************************************************************************)
MaxMain == 4        \* commits on the first-parent line of a history
MaxTime == 2        \* distinct committer timestamps
NumPlugins == 2     \* analyzers in the catalog
MaxPositions == 4   \* (repository, step, analyzer) positions of a configuration
RevsPerRepo == 1    \* revisions a traversal delivers for a repository
MaxRuns == 2        \* consecutive runs of Scanner.Scan
ScanPositions == 2  \* positions of a configuration whose scan is followed
ScanRevs == 2       \* revisions an all-commits traversal delivers in a scan
MaxSize == 2        \* largest value of a message's field
SyncCalls == 3      \* Sync calls on one repository handle
StoreTasks == 4     \* tasks that use the cache store of one analyzer
MaxRefs == 2        \* analyzer executions in the steps of a named pipeline

(***************************************************************************)
(* Small helpers.                                                          *)
(***************************************************************************)
Range(s) == {s[i] : i \in DOMAIN s}

Max(S) == CHOOSE x \in S : \A y \in S : y <= x

(***************************************************************************)
(* Repository histories.  A history has a first-parent line 1..len (1 is   *)
(* the root, len is HEAD); every commit j > 1 of the line is either plain  *)
(* (one parent, j-1) or a merge with parents <<j-1, Side(j)>>, where       *)
(* Side(j) is a commit of a side branch forked from j-1.  when is the      *)
(* committer timestamp.  pulls is the set of commits that a reference      *)
(* under refs/heads/pull/ points to.  len = 0 is a repository with no      *)
(* commit.                                                                 *)
(***************************************************************************)
NoTree == 0

Side(j) == MaxMain + j

MainLine(h) == 1..h.len

Commits(h) == MainLine(h) \cup {Side(j) : j \in h.merges}

\* hist is one of the histories within the bounds
IsHistory(h) ==
    \/ h = [len |-> 0, merges |-> {}, when |-> <<>>, pulls |-> {}]
    \/ \E l \in 1..MaxMain : \E m \in SUBSET (2..l) :
         \E p \in SUBSET ((1..(l - 1)) \cup {Side(j) : j \in m}) :
           \E w \in [(1..l) \cup {Side(j) : j \in m} -> 1..MaxTime] :
              h = [len |-> l, merges |-> m, when |-> w, pulls |-> p]

\* object.Commit.ParentHashes, first parent first
ParentsOf(h, c) ==
    IF c \in MainLine(h)
    THEN IF c = 1 THEN <<>>
         ELSE IF c \in h.merges THEN <<c - 1, Side(c)>> ELSE <<c - 1>>
    ELSE <<(c - MaxMain) - 1>>

\* commit.Tree(): every commit has a tree of its own, named after it
TreeOf(c) == c

\* prevTree.DiffContext(ctx, curTree) followed by toChanges: the changes
\* between two trees, named by the pair
Diff(from, to) == <<from, to>>

NoChanges == <<>>

(***************************************************************************)
(* r.Log(&git.LogOptions{Order: git.LogOrderCommitterTime}).  go-git       *)
(* resolves HEAD (an error when the repository has no commit) and walks    *)
(* from it with a heap ordered by committer time: the commit with the      *)
(* latest timestamp on the heap is delivered next and its unseen parents   *)
(* are pushed.  The comparator does not order equal timestamps, so every   *)
(* order of ties is a possible outcome.                                    *)
(***************************************************************************)
RECURSIVE Walk(_, _, _)
Walk(h, heap, seen) ==
    LET open == heap \ seen IN
    IF open = {} THEN {<<>>}
    ELSE LET top == Max({h.when[c] : c \in open})
             next == {c \in open : h.when[c] = top}
         IN UNION {
              {<<c>> \o rest :
                 rest \in Walk(h, (open \ {c}) \cup Range(ParentsOf(h, c)),
                               seen \cup {c})}
              : c \in next }

LogFails(h) == h.len = 0

Log(h) == Walk(h, {h.len}, {})

(***************************************************************************)
(* r.Branches(): the references under refs/heads/.  The base branch points *)
(* at HEAD; the others modelled are the pull-request heads.                *)
(***************************************************************************)
Branches(h) ==
    {[name |-> "refs/heads/pull/", hash |-> c] : c \in h.pulls} \cup
    (IF h.len = 0 THEN {} ELSE {[name |-> "refs/heads/", hash |-> h.len]})

\* the hashes of the branches whose name starts with refs/heads/pull/
pullRequestHeads(h) ==
    {b.hash : b \in {x \in Branches(h) : x.name = "refs/heads/pull/"}}

\* the loop over commit.Parents() in AllMergeCommits: isDirectParent skips
\* the first parent, every other parent is looked up in prHeads
isPRCommitAnyParent(h, c, prHeads) ==
    \E k \in 1..Len(ParentsOf(h, c)) : ParentsOf(h, c)[k] \in prHeads

isPRCommit(h, c, prHeads) ==
    \E k \in 2..Len(ParentsOf(h, c)) : ParentsOf(h, c)[k] \in prHeads

\* the selection loop of AllMergeCommits over the commits r.Log delivers
selectMerges(h, order, prHeads) ==
    SelectSeq(order, LAMBDA c : Len(ParentsOf(h, c)) > 1 /\ isPRCommit(h, c, prHeads))

\* the tree of the commit itself
ownTree(h, c) == TreeOf(c)

\* firstTree: the tree of the first parent; commitIter.Next() returns io.EOF
\* for a commit without parents
firstTreeFails(h, c) == ParentsOf(h, c) = <<>>

firstTree(h, c) == TreeOf(ParentsOf(h, c)[1])

\* the first value of the replay loop's variable, i := len(list) - 1,
\* as a 1-based position
firstIndex(l) == Len(l)

\* the loop condition i > 0, for the 1-based position
loopRuns(i) == i > 1

(***************************************************************************)
(* The traversals.  The callback is the caller's: it either returns nil or *)
(* an error, which ends the traversal.                                     *)
(***************************************************************************)
Strategies == {"headOnly", "allCommit", "allMergeCommit"}

TravInit ==
    /\ IsHistory(hist)
    /\ tpc = "idle"
    /\ strategy = "none"
    /\ list = <<>>
    /\ idx = 0
    /\ prevTree = NoTree
    /\ calls = <<>>
    /\ terr = "nil"

\* Repository.HeadOnly
HeadOnly ==
    /\ tpc = "idle"
    /\ strategy' = "headOnly"
    /\ tpc' = "done"
    /\ UNCHANGED <<hist, list, idx, prevTree>>
    /\ IF LogFails(hist)
       THEN /\ terr' = "failed to get log"
            /\ calls' = calls
       ELSE \E order \in Log(hist) :
              IF order = <<>>
              THEN /\ terr' = "nil"            \* iter.Next() returned io.EOF
                   /\ calls' = calls
              ELSE \E cbErr \in BOOLEAN :
                     /\ calls' = Append(calls, [commit |-> order[1], changes |-> NoChanges])
                     /\ terr' = IF cbErr THEN "callback" ELSE "nil"
    /\ UNCHANGED notTrav

\* Repository.AllCommits up to the replay loop
AllCommits ==
    /\ tpc = "idle"
    /\ strategy' = "allCommit"
    /\ UNCHANGED <<hist, prevTree, calls>>
    /\ IF LogFails(hist)
       THEN /\ terr' = "log"
            /\ tpc' = "done"
            /\ UNCHANGED <<list, idx>>
       ELSE \E order \in Log(hist) :
              /\ list' = order
              /\ idx' = firstIndex(order)
              /\ tpc' = "loop"
              /\ terr' = terr
    /\ UNCHANGED notTrav

\* Repository.AllMergeCommits up to the replay loop
AllMergeCommits ==
    /\ tpc = "idle"
    /\ strategy' = "allMergeCommit"
    /\ UNCHANGED <<hist, prevTree, calls>>
    /\ IF LogFails(hist)
       THEN /\ terr' = "log"
            /\ tpc' = "done"
            /\ UNCHANGED <<list, idx>>
       ELSE \E order \in Log(hist) :
              LET prCommits == selectMerges(hist, order, pullRequestHeads(hist)) IN
              /\ list' = prCommits
              /\ idx' = firstIndex(prCommits)
              /\ tpc' = "loop"
              /\ terr' = terr
    /\ UNCHANGED notTrav

\* one iteration of the replay loop shared by AllCommits and AllMergeCommits
Replay ==
    /\ tpc = "loop"
    /\ loopRuns(idx)
    /\ UNCHANGED <<hist, strategy, list>>
    /\ LET commit == list[idx] IN
       IF prevTree = NoTree /\ firstTreeFails(hist, commit)
       THEN /\ terr' = "EOF"
            /\ tpc' = "done"
            /\ UNCHANGED <<idx, prevTree, calls>>
       ELSE LET prev == IF prevTree = NoTree THEN firstTree(hist, commit) ELSE prevTree
                cur == TreeOf(commit)
            IN \E cbErr \in BOOLEAN :
                 /\ calls' = Append(calls, [commit |-> commit, changes |-> Diff(prev, cur)])
                 /\ IF cbErr
                    THEN /\ terr' = "callback"
                         /\ tpc' = "done"
                         /\ prevTree' = prev
                         /\ idx' = idx
                    ELSE /\ terr' = terr
                         /\ tpc' = tpc
                         /\ prevTree' = cur
                         /\ idx' = idx - 1
    /\ UNCHANGED notTrav

\* the replay loop ends: return nil
ReplayEnd ==
    /\ tpc = "loop"
    /\ ~loopRuns(idx)
    /\ tpc' = "done"
    /\ terr' = "nil"
    /\ UNCHANGED <<hist, strategy, list, idx, prevTree, calls>>
    /\ UNCHANGED notTrav

TravNext == HeadOnly \/ AllCommits \/ AllMergeCommits \/ Replay \/ ReplayEnd

\* no traversal is modelled
TravOff ==
    /\ hist = [len |-> 0, merges |-> {}, when |-> <<>>, pulls |-> {}]
    /\ tpc = "off"
    /\ strategy = "none"
    /\ list = <<>>
    /\ idx = 0
    /\ prevTree = NoTree
    /\ calls = <<>>
    /\ terr = "nil"

(***************************************************************************)
(* The plan.  The catalog holds NumPlugins built-in analyzers, named 1, 2, *)
(* ...; an analyzer's source-repo ID (makeHashID of its name) is           *)
(* identified with its name, a repository's ID (makeHashID of its path)    *)
(* with the repository, and sha1 is taken to be injective.                 *)
(* A pipeline of the configuration is [strategy, repos, steps]: repos a    *)
(* sequence of repositories, steps a sequence of steps, a step the         *)
(* sequence of the analyzer names it lists.                                *)
(***************************************************************************)
BuiltinPluginNames == 1..NumPlugins

PlanStrategies == {"allMergeCommit", "headOnly"}

\* the steps that list n analyzers
StepsOfSize(n) == [1..n -> BuiltinPluginNames]

\* the step lists that hold at most b analyzer references
RECURSIVE StepLists(_)
StepLists(b) ==
    {<<>>} \cup
    UNION {{<<s>> \o rest : s \in StepsOfSize(n), rest \in StepLists(b - n)} : n \in 1..b}

\* the pipelines with at most b positions
PipelineConfigs(b) ==
    UNION {{[strategy |-> st, repos |-> [i \in 1..nr |-> i], steps |-> steps] :
              st \in PlanStrategies, steps \in StepLists(b \div nr) \ {<<>>}}
           : nr \in 1..b}

RECURSIVE References(_)
References(steps) ==
    IF steps = <<>> THEN 0 ELSE Len(Head(steps)) + References(Tail(steps))

Size(pl) == Len(pl.repos) * References(pl.steps)

\* the configurations with at most b positions
RECURSIVE Configs(_)
Configs(b) ==
    {<<>>} \cup
    UNION {{<<pl>> \o rest : rest \in Configs(b - Size(pl))} : pl \in PipelineConfigs(b)}

\* sort.Strings, by insertion
RECURSIVE Insert(_, _)
Insert(x, s) ==
    IF s = <<>> THEN <<x>>
    ELSE IF x <= Head(s) THEN <<x>> \o s
         ELSE <<Head(s)>> \o Insert(x, Tail(s))

\* the slice left in the order it was filled
Unsorted(s) == s

RECURSIVE SortStrings(_)
SortStrings(s) == IF s = <<>> THEN <<>> ELSE Insert(Head(s), SortStrings(Tail(s)))

\* Step.PluginIDs: the source-repo IDs of the step's analyzers, sorted
PluginIDs(step) == SortStrings(step)

\* createPipelineID: the hash of strategy : ids of step 0 : ids of step 1 ...
RECURSIVE JoinIDs(_)
JoinIDs(steps) ==
    IF steps = <<>> THEN <<>> ELSE PluginIDs(Head(steps)) \o JoinIDs(Tail(steps))

\* an ID that keeps the steps apart
createPipelineIDPerStep(strat, steps) ==
    <<strat>> \o [i \in DOMAIN steps |-> PluginIDs(steps[i])]

createPipelineID(strat, steps) == <<strat>> \o JoinIDs(steps)

\* pipeline.ID of the pi-th pipeline of configuration c
PipelineIDOf(c, pi) == createPipelineID(c[pi].strategy, c[pi].steps)

\* filepath.Join(cfg.CachePath(), pipeline.ID, repo.ID, "%03d" of step.Idx,
\* plg.Repo.ID); step.Idx counts from 0
CachePathOf(pid, repo, stepIdx, plg) ==
    [pid |-> pid, repo |-> repo, step |-> stepIdx, plugin |-> plg]

NoPath == [pid |-> <<>>, repo |-> 0, step |-> 0, plugin |-> 0]

\* the (repository, step, analyzer) positions of a pipeline in the order the
\* loops of CreatePipelines visit them
RECURSIVE PositionsFrom(_, _, _, _)
PositionsFrom(pl, ri, si, k) ==
    IF ri > Len(pl.repos) THEN <<>>
    ELSE IF si > Len(pl.steps) THEN PositionsFrom(pl, ri + 1, 1, 1)
    ELSE IF k > Len(pl.steps[si]) THEN PositionsFrom(pl, ri, si + 1, 1)
    ELSE <<[ri |-> ri, si |-> si, k |-> k]>> \o PositionsFrom(pl, ri, si, k + 1)

Positions(pl) == PositionsFrom(pl, 1, 1, 1)

\* the loop that propagates the cache paths down the tree: the Plugin object
\* of a name is one object, so each assignment replaces the previous one
RECURSIVE AssignCachePaths(_, _, _, _)
AssignCachePaths(cp, pid, pl, poss) ==
    IF poss = <<>> THEN cp
    ELSE LET q == Head(poss)
             plg == pl.steps[q.si][q.k]
         IN AssignCachePaths(
              [cp EXCEPT ![plg] = CachePathOf(pid, pl.repos[q.ri], q.si - 1, plg)],
              pid, pl, Tail(poss))

(***************************************************************************)
(* The version registry.  An entry is [version, time]; NoVersion stands    *)
(* for readVersion's nil.                                                  *)
(***************************************************************************)
NoVersion == [version |-> 0, time |-> 0]

\* time.Time.After
After(t, u) == t > u

\* PluginVersionDB.IsUpdated
IsUpdated(reg, plg, mt) ==
    IF reg[plg] = NoVersion THEN TRUE ELSE After(mt, reg[plg].time)

\* an Update that leaves LastUpdatedTime as it was
UpdateVersionOnly(reg, plg, mt) ==
    [reg EXCEPT ![plg] = [version |-> reg[plg].version + 1, time |-> reg[plg].time]]

\* PluginVersionDB.Update
Update(reg, plg, mt) ==
    IF reg[plg] = NoVersion
    THEN [reg EXCEPT ![plg] = [version |-> 1, time |-> mt]]
    ELSE [reg EXCEPT ![plg] = [version |-> reg[plg].version + 1, time |-> mt]]

(***************************************************************************)
(* The cache stores on disk: the set of entries [path, key].               *)
(***************************************************************************)
\* Plugin.DeleteCache: os.RemoveAll(p.CachePath)
PluginDeleteCache(dsk, path) == {e \in dsk : e.path # path}

\* Step.DeleteCache: os.RemoveAll(s.CachePath), the step's directory
StepDeleteCache(dsk, pid, repo, stepIdx) ==
    {e \in dsk : ~(e.path.pid = pid /\ e.path.repo = repo /\ e.path.step = stepIdx)}

\* the loop over step.Plugins of the invalidation cascade, for a step that is
\* reached with needToDeleteStepCache = false
RECURSIVE CascadePlugins(_, _, _)
CascadePlugins(plugins, st, where) ==
    IF plugins = <<>> THEN st
    ELSE LET plg == Head(plugins) IN
         IF IsUpdated(st.reg, plg, clientMtime[plg])
         THEN CascadePlugins(Tail(plugins),
                [reg   |-> Update(st.reg, plg, clientMtime[plg]),
                 dsk   |-> PluginDeleteCache(st.dsk, cachePath[plg]),
                 flag  |-> TRUE,
                 found |-> st.found \cup
                           {[pi |-> where.pi, ri |-> where.ri, si |-> where.si,
                             plugin |-> plg,
                             recorded |-> st.reg[plg] # NoVersion]}],
                where)
         ELSE CascadePlugins(Tail(plugins), st, where)

\* the keys (revision hashes) under which the traversal of a repository
\* delivers scan contexts
Revisions(repo) == {<<repo, k>> : k \in 1..RevsPerRepo}

AllRevisions == UNION {Revisions(r) : r \in 1..MaxPositions}

\* the analyzer tasks of the plan: every (pipeline, repository, step,
\* analyzer) position
Tasks(c) ==
    UNION {{[pi |-> pi, ri |-> q.ri, si |-> q.si, k |-> q.k] :
               q \in Range(Positions(c[pi]))} : pi \in DOMAIN c}

TaskPlugin(c, t) == c[t.pi].steps[t.si][t.k]

TaskRepo(c, t) == c[t.pi].repos[t.ri]

\* Plugin.Scan for every scan context of every task, all RPCs succeeding:
\* the store of an analyzer is the one at its CachePath; a key that is not
\* in it is a miss, answered by a Scan RPC whose result is stored
Misses(c, dsk, cp) ==
    {[plugin |-> TaskPlugin(c, t), key |-> key] :
        t \in Tasks(c), key \in AllRevisions} \cap
    {m \in [plugin : BuiltinPluginNames, key : AllRevisions] :
        /\ \E t \in Tasks(c) : TaskPlugin(c, t) = m.plugin /\ m.key \in Revisions(TaskRepo(c, t))
        /\ [path |-> cp[m.plugin], key |-> m.key] \notin dsk}

StoreCache(dsk, cp, misses) ==
    dsk \cup {[path |-> cp[m.plugin], key |-> m.key] : m \in misses}

(***************************************************************************)
(* Consecutive runs of Scanner.Scan over one configuration (SpecPlan).     *)
(* The runs modelled are those in which every I/O operation and every RPC  *)
(* succeeds; between two runs analyzer binaries may be replaced.           *)
(***************************************************************************)
PlanInit ==
    /\ cfg \in Configs(MaxPositions) \ {<<>>}
    /\ mtime = [g \in BuiltinPluginNames |-> 1]
    /\ registry = [g \in BuiltinPluginNames |-> NoVersion]
    /\ disk = {}
    /\ ppc = "idle"
    /\ run = 0
    /\ pos = [pi |-> 0, ri |-> 0, si |-> 0]
    /\ needToDeleteStepCache = FALSE
    /\ cachePath = [g \in BuiltinPluginNames |-> NoPath]
    /\ clientMtime = [g \in BuiltinPluginNames |-> 0]
    /\ runMtime = [g \in BuiltinPluginNames |-> 0]
    /\ prevMtime = [g \in BuiltinPluginNames |-> 0]
    /\ found = {}
    /\ disk0 = {}
    /\ registry0 = registry
    /\ rpcs = {}

\* Scanner.Scan is called: a new process, with the Plugin objects of init()
StartRun ==
    /\ ppc = "idle"
    /\ run < MaxRuns
    /\ run' = run + 1
    /\ ppc' = "plan"
    /\ pos' = [pi |-> 1, ri |-> 1, si |-> 1]
    /\ needToDeleteStepCache' = FALSE
    /\ cachePath' = [g \in BuiltinPluginNames |-> NoPath]
    /\ clientMtime' = [g \in BuiltinPluginNames |-> 0]
    /\ prevMtime' = runMtime
    /\ runMtime' = mtime
    /\ found' = {}
    /\ disk0' = disk
    /\ registry0' = registry
    /\ rpcs' = {}
    /\ UNCHANGED <<cfg, mtime, registry, disk>>
    /\ UNCHANGED notPlan

\* CreatePipelines, one pipeline of the loop up to the cascade: the
\* repositories and steps are created, every analyzer reference is Setup
\* (the client records the binary's mtime), the ID and the cache paths are set
PipelinePlan ==
    /\ ppc = "plan"
    /\ LET pl == cfg[pos.pi]
           pid == createPipelineID(pl.strategy, pl.steps)
           used == UNION {Range(pl.steps[i]) : i \in DOMAIN pl.steps}
       IN /\ clientMtime' = [g \in BuiltinPluginNames |->
                               IF g \in used THEN mtime[g] ELSE clientMtime[g]]
          /\ cachePath' = AssignCachePaths(cachePath, pid, pl, Positions(pl))
    /\ needToDeleteStepCache' = FALSE
    /\ ppc' = "cascade"
    /\ UNCHANGED <<cfg, mtime, registry, disk, run, pos, runMtime, prevMtime,
                   found, disk0, registry0, rpcs>>
    /\ UNCHANGED notPlan

\* the position after step si of repository ri of pipeline pi
NextPos(c, q) ==
    IF q.si < Len(c[q.pi].steps) THEN [q EXCEPT !.si = q.si + 1]
    ELSE IF q.ri < Len(c[q.pi].repos) THEN [q EXCEPT !.ri = q.ri + 1, !.si = 1]
    ELSE [pi |-> q.pi + 1, ri |-> 1, si |-> 1]

\* the invalidation cascade at one step of one repository
CascadeStep ==
    /\ ppc = "cascade"
    /\ LET pl == cfg[pos.pi]
           pid == createPipelineID(pl.strategy, pl.steps)
           st0 == [reg |-> registry, dsk |-> disk,
                   flag |-> needToDeleteStepCache, found |-> found]
           st == IF needToDeleteStepCache
                 THEN [st0 EXCEPT !.dsk = StepDeleteCache(disk, pid, pl.repos[pos.ri], pos.si - 1)]
                 ELSE CascadePlugins(pl.steps[pos.si], st0, pos)
           nxt == NextPos(cfg, pos)
       IN /\ registry' = st.reg
          /\ disk' = st.dsk
          /\ found' = st.found
          /\ needToDeleteStepCache' = IF pos.si < Len(pl.steps) THEN st.flag ELSE FALSE
          /\ pos' = nxt
          /\ ppc' = IF nxt.pi = pos.pi THEN "cascade"
                    ELSE IF nxt.pi <= Len(cfg) THEN "plan" ELSE "built"
    /\ UNCHANGED <<cfg, mtime, run, cachePath, clientMtime, runMtime, prevMtime,
                   disk0, registry0, rpcs>>
    /\ UNCHANGED notPlan

\* the scan of the plan, and the return of Scanner.Scan
RunScan ==
    /\ ppc = "built"
    /\ rpcs' = Misses(cfg, disk, cachePath)
    /\ disk' = StoreCache(disk, cachePath, Misses(cfg, disk, cachePath))
    /\ ppc' = "idle"
    /\ UNCHANGED <<cfg, mtime, registry, run, pos, needToDeleteStepCache, cachePath,
                   clientMtime, runMtime, prevMtime, found, disk0, registry0>>
    /\ UNCHANGED notPlan

\* between two runs the binary of an analyzer is replaced by a newer one:
\* its mtime becomes the current time, later than any time of the last run
ReplaceBinary ==
    /\ ppc = "idle"
    /\ run >= 1
    /\ run < MaxRuns
    /\ \E g \in BuiltinPluginNames :
          /\ mtime[g] <= run
          /\ mtime' = [mtime EXCEPT ![g] = run + 1]
    /\ UNCHANGED <<cfg, registry, disk, ppc, run, pos, needToDeleteStepCache,
                   cachePath, clientMtime, runMtime, prevMtime, found, disk0, registry0, rpcs>>
    /\ UNCHANGED notPlan

PlanNext == StartRun \/ PipelinePlan \/ CascadeStep \/ RunScan \/ ReplaceBinary

\* no plan is modelled
PlanOff ==
    /\ cfg = <<>>
    /\ mtime = <<>>
    /\ registry = <<>>
    /\ disk = {}
    /\ ppc = "off"
    /\ run = 0
    /\ pos = [pi |-> 0, ri |-> 0, si |-> 0]
    /\ needToDeleteStepCache = FALSE
    /\ cachePath = <<>>
    /\ clientMtime = <<>>
    /\ runMtime = <<>>
    /\ prevMtime = <<>>
    /\ found = {}
    /\ disk0 = {}
    /\ registry0 = <<>>
    /\ rpcs = {}

(***************************************************************************)
(* One run of the orchestrator over a plan (SpecScan).  Scanner.Scan       *)
(* starts one goroutine per pipeline, scanWithPipeline one per repository, *)
(* scanWithPipelineAndRepo walks the steps in order and starts one         *)
(* goroutine (an analyzer task) per analyzer of the step; each of the      *)
(* three is joined through an errgroup.Group declared as a zero value.     *)
(* An analyzer task syncs the repository and runs its own traversal, whose *)
(* callback is Plugin.Scan.  The revisions a traversal delivers are named  *)
(* <<repository, n>>; <<repository, ScanRevs>> is the newest.              *)
(***************************************************************************)
ScanGroup == [level |-> "scan", pi |-> 0, ri |-> 0]

PipelineGroup(pi) == [level |-> "pipeline", pi |-> pi, ri |-> 0]

StepGroup(pi, ri) == [level |-> "step", pi |-> pi, ri |-> ri]

\* the groups of one run; the group of scanWithPipelineAndRepo is declared
\* anew for each step
Groups(c) ==
    {ScanGroup} \cup {PipelineGroup(pi) : pi \in DOMAIN c} \cup
    UNION {{StepGroup(pi, ri) : ri \in DOMAIN c[pi].repos} : pi \in DOMAIN c}

\* an error is named by the analyzer task it comes from and by its cause;
\* wrapping (errors.Wrapf, errors.Stack) keeps both
NoError == [pi |-> 0, ri |-> 0, si |-> 0, k |-> 0, cause |-> "nil"]

NotReturned == [pi |-> 0, ri |-> 0, si |-> 0, k |-> 0, cause |-> "running"]

ErrorOf(t, cause) == [pi |-> t.pi, ri |-> t.ri, si |-> t.si, k |-> t.k, cause |-> cause]

\* errgroup.Group.Go on a function that returned the error e: g.errOnce.Do
\* keeps the first error only
RecordLastError(cur, e) == e

RecordError(cur, e) == IF cur = NoError THEN e ELSE cur

\* ... and calls g.cancel if it is not nil.  The groups are declared with
\* var eg errgroup.Group, so cancel is nil and no signal is fired
GroupCancelWithContext(g) == {g}

GroupCancel(g) == {}

\* the context an analyzer task runs under is done
Cancelled(t) ==
    {ScanGroup, PipelineGroup(t.pi), StepGroup(t.pi, t.ri)} \cap cancelled # {}

\* the revisions the traversal of a strategy delivers to the callback
Delivered(strat, repo) ==
    IF strat = "headOnly" THEN <<<<repo, ScanRevs>>>>
    ELSE [n \in 1..ScanRevs |-> <<repo, n>>]

TaskRevs(c, t) == Delivered(c[t.pi].strategy, TaskRepo(c, t))

\* the type name of the message an analyzer emits (ScanResponse.Name)
TypeOf(plg) == plg

\* the envelope analyzer plg produces for a revision
Response(plg, key) == [name |-> TypeOf(plg), plugin |-> plg, key |-> key]

\* Client.storeResult: scanctx.Data[result.Name] = result
storeResult(data, res) == {d \in data : d.name # res.name} \cup {res}

\* the names for which ScanContext.GetData finds an entry
DataNames(data) == {d.name : d \in data}

\* the stores of the analyzers of G hold every revision, the others none
FullStores(G) ==
    {[plugin |-> g, key |-> <<r, n>>] :
        g \in G, r \in 1..ScanPositions, n \in 1..ScanRevs}

IdleTask ==
    [pc |-> "wait", rev |-> 0, data |-> {}, err |-> NoError, seen |-> <<>>,
     late |-> FALSE, sent |-> {}]

StepTasks(c, pi, ri, si) ==
    {t \in Tasks(c) : t.pi = pi /\ t.ri = ri /\ t.si = si}

\* eg.Go for every analyzer of the step
LaunchStep(tk, pi, ri, si) ==
    [t \in DOMAIN tk |->
        IF t.pi = pi /\ t.ri = ri /\ t.si = si
        THEN [tk[t] EXCEPT !.pc = "sync"] ELSE tk[t]]

\* the goroutine of the task has been started
Launched(t) == task[t].pc # "wait"

\* the function of the task has returned; eg.Wait (wg.Wait) waits for this
Finished(t) == task[t].pc \in {"done", "failed"}

\* a peer of t in its step has already returned an error
PeerFailed(t) ==
    \E u \in StepTasks(scfg, t.pi, t.ri, t.si) : u # t /\ task[u].pc = "failed"

RepoKeys(c) == UNION {{<<pi, ri>> : ri \in DOMAIN c[pi].repos} : pi \in DOMAIN c}

\* the Setup calls of CreatePipelines in their order: the analyzer of every
\* (repository, step, analyzer) position of every pipeline
RECURSIVE SetupCallsFrom(_, _)
SetupCallsFrom(c, pi) ==
    IF pi > Len(c) THEN <<>>
    ELSE [i \in DOMAIN Positions(c[pi]) |->
             c[pi].steps[Positions(c[pi])[i].si][Positions(c[pi])[i].k]]
         \o SetupCallsFrom(c, pi + 1)

SetupCalls(c) == SetupCallsFrom(c, 1)

\* the subprocesses started by the first n Setup calls
Spawned(c, n) == {[plugin |-> SetupCalls(c)[i], n |-> i] : i \in 1..n}

\* Plugin.Client after n Setup calls: the subprocess of the last Setup of
\* the analyzer, every Setup replacing the Client of the one before
ClientOf(c, n, plg) ==
    [plugin |-> plg, n |-> Max({i \in 1..n : SetupCalls(c)[i] = plg})]

\* a name no built-in analyzer has
ExternalName == NumPlugins + 1

\* cfg.Plugin.Scanner: no declaration, one named as the built-in analyzer 1
\* ("size"), one with a name of its own
ScannerDeclarations == {<<>>, <<1>>, <<ExternalName>>}

\* BuiltinPlugins, by name: the Plugin objects init() builds (Name, setup)
BuiltinPlugins == [n \in BuiltinPluginNames |-> [builtin |-> TRUE, repo |-> n]]

\* the catalog after a declaration that replaces the entry of its name
Redeclare(m, name) ==
    [n \in DOMAIN m \cup {name} |->
        IF n = name THEN [builtin |-> FALSE, repo |-> name] ELSE m[n]]

\* CreatePipelines, one scanner or storer declaration: a name the catalog
\* holds is skipped, a new one gets &Plugin{Repo: repo}
Declare(m, name) ==
    IF name \in DOMAIN m THEN m
    ELSE [n \in DOMAIN m \cup {name} |->
            IF n = name THEN [builtin |-> FALSE, repo |-> name] ELSE m[n]]

\* CreatePipelines, the loop over the declarations
RECURSIVE DeclareAll(_, _)
DeclareAll(m, decls) ==
    IF decls = <<>> THEN m ELSE DeclareAll(Declare(m, Head(decls)), Tail(decls))

\* Strategy is a string that the configuration is not validated for: a
\* pipeline can carry a value that is none of the three constants (the empty
\* string of an omitted key among them)
OtherStrategy == "other"

ScanStrategies == PlanStrategies \cup {OtherStrategy}

\* the configuration c with every choice of strategies for its pipelines
Restrategy(c) ==
    {[i \in DOMAIN c |-> [c[i] EXCEPT !.strategy = st[i]]] :
        st \in [DOMAIN c -> ScanStrategies]}

ScanConfigs == UNION {Restrategy(c) : c \in Configs(ScanPositions) \ {<<>>}}

\* a switch with a default case that runs a traversal
HasCaseOrDefault(strat) == TRUE

\* the switch of scanWithPipelineAndRepo has a case for the strategy
HasCase(strat) == strat \in {"allMergeCommit", "allCommit", "headOnly"}

ScanInit ==
    /\ scfg \in ScanConfigs
    /\ scache \in {FullStores(G) : G \in SUBSET BuiltinPluginNames}
    /\ spc = "new"
    /\ task = [t \in Tasks(scfg) |-> IdleTask]
    /\ stepAt = [r \in RepoKeys(scfg) |-> 0]
    /\ gerr = [g \in Groups(scfg) |-> NoError]
    /\ gret = [g \in Groups(scfg) |-> NotReturned]
    /\ cancelled = {}
    /\ first = [g \in Groups(scfg) |-> NoError]
    /\ stopped = {}
    /\ procs = {}
    /\ killed = {}
    /\ declared \in ScannerDeclarations
    /\ pluginMap = <<>>

\* Scanner.Scan up to the task groups: CreatePipelines.  The catalog is the
\* built-ins and then the declarations; the steps are resolved against it
\* (every step of the configurations names a built-in).  Every analyzer
\* reference of the configuration is Setup in turn, and every Setup of a
\* built-in starts a subprocess of its own (plugin.NewClient, client.Client)
\* and makes it the Client of the shared Plugin object.  The build can fail
\* at any point (a Setup, a repository, the registry, a cache deletion);
\* Scan then returns the error before it has deferred the Cleanup
BuildPlan ==
    /\ spc = "new"
    /\ \E n \in 0..Len(SetupCalls(scfg)) : \E ok \in BOOLEAN :
          /\ ok => n = Len(SetupCalls(scfg))
          /\ procs' = Spawned(scfg, n)
          /\ spc' = IF ok THEN "start" ELSE "failed"
          /\ pluginMap' = IF ok THEN DeclareAll(BuiltinPlugins, declared)
                          ELSE pluginMap
    /\ UNCHANGED <<scfg, scache, task, stepAt, gerr, gret, cancelled, first,
                   stopped, killed, declared>>
    /\ UNCHANGED notScan

\* Scanner.Scan up to eg.Wait: every pipeline goroutine starts its repository
\* goroutines, and each of those the analyzer tasks of its first step
ScanStart ==
    /\ spc = "start"
    /\ spc' = "scan"
    /\ stepAt' = [r \in RepoKeys(scfg) |-> 1]
    /\ task' = [t \in DOMAIN task |->
                  IF t.si = 1 THEN [task[t] EXCEPT !.pc = "sync"] ELSE task[t]]
    /\ UNCHANGED <<scfg, scache, gerr, gret, cancelled, first, stopped>>
    /\ UNCHANGED <<procs, killed, declared, pluginMap>>
    /\ UNCHANGED notScan

\* the analyzer task t returns the error e to the group of its step, its
\* scan context holding data
TaskFailsWith(t, cause, data) ==
    LET e == ErrorOf(t, cause)
        g == StepGroup(t.pi, t.ri)
    IN /\ task' = [task EXCEPT ![t].pc = "failed", ![t].err = e,
                               ![t].data = data,
                               ![t].late = @ \/ PeerFailed(t)]
       /\ gerr' = [gerr EXCEPT ![g] = RecordError(@, e)]
       /\ cancelled' = cancelled \cup GroupCancel(g)
       /\ first' = IF first[g] = NoError THEN [first EXCEPT ![g] = e] ELSE first

TaskFails(t, cause) == TaskFailsWith(t, cause, task[t].data)

\* the lookup never finds an entry
CacheNeverHit(store, plg, key) == FALSE

\* Plugin.GetCache: the store holds an entry under the revision's hash
CacheHit(store, plg, key) == [plugin |-> plg, key |-> key] \in store

\* scanHeadOnly / scanAllCommits / scanAllMergeCommits up to the traversal:
\* BaseBranch, Sync, and the traversal's own setup (the log, the new scan
\* context with empty Data)
TaskSync(t) ==
    /\ spc = "scan"
    /\ task[t].pc = "sync"
    /\ HasCase(scfg[t.pi].strategy)
    /\ \/ /\ ~Cancelled(t)
          /\ task' = [task EXCEPT ![t].pc = "walk", ![t].rev = 1, ![t].data = {},
                                  ![t].late = @ \/ PeerFailed(t)]
          /\ UNCHANGED <<gerr, cancelled, first>>
       \/ TaskFails(t, IF Cancelled(t) THEN "canceled" ELSE "sync")
    /\ UNCHANGED <<scfg, scache, spc, stepAt, gret, stopped>>
    /\ UNCHANGED <<procs, killed, declared, pluginMap>>
    /\ UNCHANGED notScan

\* the goroutine of an analyzer whose pipeline's strategy matches no case of
\* the switch: no case body runs and the function returns nil
TaskSkip(t) ==
    /\ spc = "scan"
    /\ task[t].pc = "sync"
    /\ ~HasCase(scfg[t.pi].strategy)
    /\ task' = [task EXCEPT ![t].pc = "done"]
    /\ UNCHANGED <<scfg, scache, spc, stepAt, gerr, gret, cancelled, first, stopped>>
    /\ UNCHANGED <<procs, killed, declared, pluginMap>>
    /\ UNCHANGED notScan

\* the traversal delivers its next revision: Plugin.Scan up to the RPC, that
\* is GetCache and, on a hit, storeResult; an error of GetCache other than
\* the missing key (the store cannot be opened or read) is returned
TaskLookup(t) ==
    /\ spc = "scan"
    /\ task[t].pc = "walk"
    /\ task[t].rev <= Len(TaskRevs(scfg, t))
    /\ LET plg == TaskPlugin(scfg, t)
           key == TaskRevs(scfg, t)[task[t].rev]
           sn  == Append(task[t].seen, [key |-> key, names |-> DataNames(task[t].data)])
       IN \/ /\ IF CacheHit(scache, plg, key)
                THEN task' = [task EXCEPT ![t].data = storeResult(@, Response(plg, key)),
                                          ![t].rev = @ + 1, ![t].seen = sn,
                                          ![t].late = @ \/ PeerFailed(t)]
                ELSE task' = [task EXCEPT ![t].pc = "rpc", ![t].seen = sn,
                                          ![t].sent = @ \cup {key},
                                          ![t].late = @ \/ PeerFailed(t)]
             /\ UNCHANGED <<gerr, cancelled, first>>
          \/ TaskFails(t, "cache")
    /\ UNCHANGED <<scfg, scache, spc, stepAt, gret, stopped>>
    /\ UNCHANGED <<procs, killed, declared, pluginMap>>
    /\ UNCHANGED notScan

\* Client.Scan returns: on success storeResult and Plugin.StoreCache, on an
\* error (the analyzer's, or the context's) the task returns it; an error of
\* StoreCache is returned with the result already in the scan context
TaskRPC(t) ==
    /\ spc = "scan"
    /\ task[t].pc = "rpc"
    /\ LET plg == TaskPlugin(scfg, t)
           key == TaskRevs(scfg, t)[task[t].rev]
       IN \/ /\ ~Cancelled(t)
             /\ task' = [task EXCEPT ![t].pc = "walk",
                                     ![t].data = storeResult(@, Response(plg, key)),
                                     ![t].rev = @ + 1,
                                     ![t].late = @ \/ PeerFailed(t)]
             /\ scache' = scache \cup {[plugin |-> plg, key |-> key]}
             /\ UNCHANGED <<gerr, cancelled, first>>
          \/ /\ TaskFails(t, IF Cancelled(t) THEN "canceled" ELSE "rpc")
             /\ scache' = scache
          \/ /\ ~Cancelled(t)
             /\ TaskFailsWith(t, "store", storeResult(task[t].data, Response(plg, key)))
             /\ scache' = scache
    /\ UNCHANGED <<scfg, spc, stepAt, gret, stopped>>
    /\ UNCHANGED <<procs, killed, declared, pluginMap>>
    /\ UNCHANGED notScan

\* the traversal has delivered every revision: the task returns nil
TaskEnd(t) ==
    /\ spc = "scan"
    /\ task[t].pc = "walk"
    /\ task[t].rev > Len(TaskRevs(scfg, t))
    /\ task' = [task EXCEPT ![t].pc = "done"]
    /\ UNCHANGED <<scfg, scache, spc, stepAt, gerr, gret, cancelled, first, stopped>>
    /\ UNCHANGED <<procs, killed, declared, pluginMap>>
    /\ UNCHANGED notScan

\* scanWithPipelineAndRepo: eg.Wait of the step returns; on an error the
\* function returns it to the group of scanWithPipeline, otherwise it goes
\* on to the next step or returns nil
StepJoin(pi, ri) ==
    /\ spc = "scan"
    /\ stepAt[<<pi, ri>>] >= 1
    /\ gret[StepGroup(pi, ri)] = NotReturned
    /\ \A t \in StepTasks(scfg, pi, ri, stepAt[<<pi, ri>>]) : Finished(t)
    /\ LET g == StepGroup(pi, ri)
           up == PipelineGroup(pi)
           e == gerr[g]
       IN IF e # NoError
          THEN /\ gret' = [gret EXCEPT ![g] = e]
               /\ gerr' = [gerr EXCEPT ![up] = RecordError(@, e)]
               /\ cancelled' = cancelled \cup GroupCancel(up)
               /\ first' = IF first[up] = NoError THEN [first EXCEPT ![up] = e] ELSE first
               /\ UNCHANGED <<stepAt, task>>
          ELSE IF stepAt[<<pi, ri>>] = Len(scfg[pi].steps)
          THEN /\ gret' = [gret EXCEPT ![g] = NoError]
               /\ UNCHANGED <<gerr, cancelled, first, stepAt, task>>
          ELSE /\ stepAt' = [stepAt EXCEPT ![<<pi, ri>>] = @ + 1]
               /\ task' = LaunchStep(task, pi, ri, stepAt[<<pi, ri>>] + 1)
               /\ UNCHANGED <<gerr, gret, cancelled, first>>
    /\ UNCHANGED <<scfg, scache, spc, stopped>>
    /\ UNCHANGED <<procs, killed, declared, pluginMap>>
    /\ UNCHANGED notScan

\* scanWithPipeline: eg.Wait over the repositories returns
PipelineJoin(pi) ==
    /\ spc = "scan"
    /\ gret[PipelineGroup(pi)] = NotReturned
    /\ \A ri \in DOMAIN scfg[pi].repos : gret[StepGroup(pi, ri)] # NotReturned
    /\ LET g == PipelineGroup(pi)
           e == gerr[g]
       IN /\ gret' = [gret EXCEPT ![g] = e]
          /\ IF e # NoError
             THEN /\ gerr' = [gerr EXCEPT ![ScanGroup] = RecordError(@, e)]
                  /\ cancelled' = cancelled \cup GroupCancel(ScanGroup)
                  /\ first' = IF first[ScanGroup] = NoError
                             THEN [first EXCEPT ![ScanGroup] = e] ELSE first
             ELSE UNCHANGED <<gerr, cancelled, first>>
    /\ UNCHANGED <<scfg, scache, spc, task, stepAt, stopped>>
    /\ UNCHANGED <<procs, killed, declared, pluginMap>>
    /\ UNCHANGED notScan

\* Scanner.Scan: eg.Wait over the pipelines returns, the deferred Cleanup
\* stops the client of every analyzer of the plan
ScanReturn ==
    /\ spc = "scan"
    /\ \A pi \in DOMAIN scfg : gret[PipelineGroup(pi)] # NotReturned
    /\ gret' = [gret EXCEPT ![ScanGroup] = gerr[ScanGroup]]
    /\ stopped' = {TaskPlugin(scfg, t) : t \in Tasks(scfg)}
    /\ killed' = killed \cup
                  {ClientOf(scfg, Len(SetupCalls(scfg)), TaskPlugin(scfg, t)) :
                      t \in Tasks(scfg)}
    /\ spc' = "returned"
    /\ UNCHANGED <<scfg, scache, task, stepAt, gerr, cancelled, first, procs>>
    /\ UNCHANGED <<declared, pluginMap>>
    /\ UNCHANGED notScan

ScanNext ==
    \/ BuildPlan
    \/ ScanStart
    \/ \E t \in Tasks(scfg) : TaskSync(t)
    \/ \E t \in Tasks(scfg) : TaskSkip(t)
    \/ \E t \in Tasks(scfg) : TaskLookup(t)
    \/ \E t \in Tasks(scfg) : TaskRPC(t)
    \/ \E t \in Tasks(scfg) : TaskEnd(t)
    \/ \E r \in RepoKeys(scfg) : StepJoin(r[1], r[2])
    \/ \E pi \in DOMAIN scfg : PipelineJoin(pi)
    \/ ScanReturn

\* no scan is modelled
ScanOff ==
    /\ scfg = <<>>
    /\ scache = {}
    /\ spc = "off"
    /\ task = <<>>
    /\ stepAt = <<>>
    /\ gerr = <<>>
    /\ gret = <<>>
    /\ cancelled = {}
    /\ first = <<>>
    /\ stopped = {}
    /\ procs = {}
    /\ killed = {}
    /\ declared = <<>>
    /\ pluginMap = <<>>

(***************************************************************************)
(* Resolving a repository declaration (SpecPath): RepositoryConfig.RepoPath *)
(* matches the declared URL against urlMatcher, NewRepository joins the    *)
(* result to the mount path, and an error travels up through               *)
(* NewRepository, CreatePipelines and Scanner.Scan, each of which may wrap *)
(* it.  A string is a sequence of characters.  The URLs are a scheme, a    *)
(* separator and a rest, the rest a clean slash-separated path.            *)
(***************************************************************************)
Schemes ==
    { <<"h", "t", "t", "p">>, <<"h", "t", "t", "p", "s">>, <<"h", "t", "t", "s">>,
      <<"h", "t", "t">>, <<"g", "i", "t", "@">>, <<"f", "t", "p">>, <<>> }

Separators == { <<":", "/", "/">>, <<":">>, <<>> }

Rests == { <<>>, <<"x">>, <<"x", "/", "y">>, <<"x", "/", "y", "/", "z">> }

URLs == {sc \o sep \o rest : sc \in Schemes, sep \in Separators, rest \in Rests}

treportRepoURL ==
    <<"h", "t", "t", "p", "s", ":", "/", "/", "t", "r", "e", "p", "o", "r", "t">>

treportRepoPath == <<"t", "r", "e", "p", "o", "r", "t">>

\* the literal lit stands in s at position at
HasPrefix(s, lit, at) ==
    /\ at + Len(lit) - 1 <= Len(s)
    /\ \A i \in DOMAIN lit : s[at + i - 1] = lit[i]

\* the characters . matches
AnyChars(s) == \A i \in DOMAIN s : s[i] # "\n"

NoMatch == <<"no match">>

\* urlMatcher = regexp.MustCompile(`^http?s://(.+)$`), FindAllStringSubmatch:
\* the text of the group, or NoMatch.  The pattern is h t t, an optional p,
\* then s : / /, then one character or more up to the end
urlMatcher(s) ==
    IF ~HasPrefix(s, <<"h", "t", "t">>, 1) THEN NoMatch
    ELSE IF /\ HasPrefix(s, <<"p">>, 4)
            /\ HasPrefix(s, <<"s", ":", "/", "/">>, 5)
            /\ Len(s) >= 9
            /\ AnyChars(SubSeq(s, 9, Len(s)))
         THEN SubSeq(s, 9, Len(s))
    ELSE IF /\ HasPrefix(s, <<"s", ":", "/", "/">>, 4)
            /\ Len(s) >= 8
            /\ AnyChars(SubSeq(s, 8, Len(s)))
         THEN SubSeq(s, 8, Len(s))
    ELSE NoMatch

\* ErrInvalidRepositoryPath(path)
ErrInvalidRepositoryPath(path) == [kind |-> "InvalidRepositoryPath", path |-> path]

\* errors.Wrap / Wrapf / Stack: a wrapError around the error
WrapLayer == [kind |-> "wrapError", path |-> <<>>]

Wrap(err) == <<WrapLayer>> \o err

\* wrapError.rootError: the first error of the chain that is no wrapError
RECURSIVE rootError(_)
rootError(err) ==
    IF err = <<>> THEN <<>>
    ELSE IF Head(err).kind = "wrapError" THEN rootError(Tail(err))
    ELSE <<Head(err)>>

\* errors.As(err, &target) with target a *InvalidRepositoryPathError: the
\* error found, <<>> when there is none
AsInvalidRepositoryPath(err) ==
    IF rootError(err) # <<>> /\ rootError(err)[1].kind = "InvalidRepositoryPath"
    THEN rootError(err) ELSE <<>>

\* filepath.Join(mountPath, repoPath), for a clean relative repoPath
MountJoin(path) == <<"$MOUNT", "/">> \o path

PathInit ==
    /\ repoURL \in URLs
    /\ rpc = "cfg"
    /\ repoPath = <<>>
    /\ repoErr = <<>>

\* RepositoryConfig.RepoPath
RepoPath ==
    /\ rpc = "cfg"
    /\ rpc' = "resolved"
    /\ IF repoURL = <<>>
       THEN /\ repoURL' = treportRepoURL
            /\ repoPath' = treportRepoPath
            /\ repoErr' = <<>>
       ELSE /\ repoURL' = repoURL
            /\ IF urlMatcher(repoURL) = NoMatch
               THEN /\ repoPath' = <<>>
                    /\ repoErr' = <<ErrInvalidRepositoryPath(repoURL)>>
               ELSE /\ repoPath' = urlMatcher(repoURL)
                    /\ repoErr' = <<>>
    /\ UNCHANGED notPath

\* NewRepository, after cfg.RepoPath(): the error is wrapped, the path is
\* joined to the mount path (the clone or open succeeds)
NewRepository ==
    /\ rpc = "resolved"
    /\ rpc' = "opened"
    /\ IF repoErr # <<>>
       THEN /\ repoErr' = Wrap(repoErr)
            /\ repoPath' = repoPath
       ELSE /\ repoErr' = repoErr
            /\ repoPath' = MountJoin(repoPath)
    /\ repoURL' = repoURL
    /\ UNCHANGED notPath

\* CreatePipelines returns the error of NewRepository: as it is for a
\* repository of a pipeline, wrapped for a scanner or storer declaration
CreatePipelinesFails ==
    /\ rpc = "opened"
    /\ repoErr # <<>>
    /\ rpc' = "planned"
    /\ \E decl \in {"pipeline", "scanner"} :
          repoErr' = IF decl = "scanner" THEN Wrap(repoErr) ELSE repoErr
    /\ UNCHANGED <<repoURL, repoPath>>
    /\ UNCHANGED notPath

\* Scanner.Scan returns the error of CreatePipelines, wrapped
ScanFails ==
    /\ rpc = "planned"
    /\ rpc' = "returned"
    /\ repoErr' = Wrap(repoErr)
    /\ UNCHANGED <<repoURL, repoPath>>
    /\ UNCHANGED notPath

PathNext == RepoPath \/ NewRepository \/ CreatePipelinesFails \/ ScanFails

\* no repository declaration is modelled
PathOff ==
    /\ repoURL = <<>>
    /\ rpc = "off"
    /\ repoPath = <<>>
    /\ repoErr = <<>>

(***************************************************************************)
(* The envelope of a result (SpecData): an analyzer's Scan turns a message *)
(* into a Response (ToResponse), the server copies it into a ScanResponse, *)
(* the client stores it into the scan context (storeResult) and GetData    *)
(* decodes it into a target of the caller.  A message is its type and the  *)
(* value of its one scalar field.                                          *)
(***************************************************************************)
MessageTypes == {"SizeData", "LineData"}

Messages == [type : MessageTypes, size : 0..MaxSize]

\* proto.MessageName
MessageName(m) == m.type

\* proto.Marshal of a proto3 message: a scalar field at its zero value is
\* not written
Marshal(m) == IF m.size = 0 THEN <<>> ELSE <<m.size>>

\* anypb.New: the type URL and the marshalled message
AnyNew(m) == [url |-> MessageName(m), value |-> Marshal(m)]

\* ToResponse, and grpcServer.Scan copying the Response into the ScanResponse
ToResponse(m) == [name |-> MessageName(m), data |-> AnyNew(m)]

\* the bytes merged into the message as it is: a field the bytes do not
\* hold keeps its value
UnmarshalMerge(m, bytes) == IF bytes = <<>> THEN m ELSE [m EXCEPT !.size = bytes[1]]

\* proto.Unmarshal: the message is reset, then the fields the bytes hold are
\* set
Unmarshal(m, bytes) == [m EXCEPT !.size = IF bytes = <<>> THEN 0 ELSE bytes[1]]

\* anypb.UnmarshalTo: the type URL has to name the type of the target
UnmarshalTo(any, m) ==
    IF any.url # MessageName(m) THEN [err |-> "mismatch", msg |-> m]
    ELSE [err |-> "nil", msg |-> Unmarshal(m, any.value)]

\* ScanContext.GetData
GetData(ctx, m) ==
    IF MessageName(m) \notin DOMAIN ctx.Data THEN [err |-> "NoData", msg |-> m]
    ELSE UnmarshalTo(ctx.Data[MessageName(m)].data, m)

\* f with x mapped to v
Put(f, x, v) == [y \in DOMAIN f \cup {x} |-> IF y = x THEN v ELSE f[y]]

\* the context with pluginToType[pluginName] assigned on every result
StoreEnvelopeLastType(ctx, plg, res) ==
    [Data |-> Put(ctx.Data, res.name, res),
     pluginToType |-> Put(ctx.pluginToType, plg, res.name)]

\* Client.storeResult on the context: Data[result.Name] = result, and
\* pluginToType[pluginName] = result.Name unless the analyzer has an entry
StoreEnvelope(ctx, plg, res) ==
    [Data |-> Put(ctx.Data, res.name, res),
     pluginToType |-> IF plg \in DOMAIN ctx.pluginToType THEN ctx.pluginToType
                      ELSE Put(ctx.pluginToType, plg, res.name)]

\* the scan context a traversal creates: Data and pluginToType empty
NewScanContext == [Data |-> <<>>, pluginToType |-> <<>>]

DataInit ==
    /\ dctx = NewScanContext
    /\ drev = 0
    /\ produced = <<>>
    /\ dbefore \in Messages
    /\ dtarget = dbefore
    /\ dret = "none"

\* the replay loop of the traversal calls cb(scanctx) for its next commit:
\* Commit, Snapshot and Changes are assigned, Data and pluginToType are not
DataCallback ==
    /\ drev < ScanRevs
    /\ drev' = drev + 1
    /\ UNCHANGED <<dctx, produced, dbefore, dtarget, dret>>
    /\ UNCHANGED notData

\* Client.Scan with a successful RPC, inside a callback: the analyzer plg
\* answers the message m
DataScan(plg, m) ==
    /\ drev >= 1
    /\ dctx' = StoreEnvelope(dctx, plg, ToResponse(m))
    /\ produced' = Put(produced, MessageName(m), m)
    /\ UNCHANGED <<drev, dbefore, dtarget, dret>>
    /\ UNCHANGED notData

\* an analyzer calls ctx.GetData(&m) on the context
DataGet(m) ==
    /\ drev >= 1
    /\ dbefore' = m
    /\ dtarget' = GetData(dctx, m).msg
    /\ dret' = GetData(dctx, m).err
    /\ UNCHANGED <<dctx, drev, produced>>
    /\ UNCHANGED notData

DataNext ==
    \/ DataCallback
    \/ \E plg \in BuiltinPluginNames, m \in Messages : DataScan(plg, m)
    \/ \E m \in Messages : DataGet(m)

\* no scan context is modelled
DataOff ==
    /\ dctx = <<>>
    /\ drev = 0
    /\ produced = <<>>
    /\ dbefore = <<>>
    /\ dtarget = <<>>
    /\ dret = "off"

(***************************************************************************)
(* Repository.Sync on one repository handle (SpecSync).  The analyzer      *)
(* tasks of a step are goroutines that each call Sync on the handle of     *)
(* their repository; the tasks of a later step call it after them.  Sync   *)
(* is syncRemoteBranches (BaseBranch, fetch), Checkout and PullContext;    *)
(* fetch reads r.fetched, calls FetchContext and sets r.fetched, with no   *)
(* lock around the three.                                                  *)
(***************************************************************************)
SyncCallers == 1..SyncCalls

\* what FetchContext and PullContext return
GitResults == {"nil", "NoErrAlreadyUpToDate", "error"}

\* the checks `err != git.NoErrAlreadyUpToDate` of fetch and Sync: an error
\* that is returned to the caller
IsSyncError(res) == res \notin {"nil", "NoErrAlreadyUpToDate"}

SyncIdle == [pc |-> "idle", checkout |-> 0, pull |-> 0, res |-> "none"]

SyncInit ==
    /\ fetched = FALSE
    /\ fetches = 0
    /\ sync = [c \in SyncCallers |-> SyncIdle]

\* Sync is called; fetch reads r.fetched
SyncRead(c) ==
    /\ sync[c].pc = "idle"
    /\ sync' = [sync EXCEPT ![c].pc = IF fetched THEN "checkout" ELSE "fetch"]
    /\ UNCHANGED <<fetched, fetches>>
    /\ UNCHANGED notSync

\* fetch: FetchContext returns, r.fetched = true unless it was an error
SyncFetch(c) ==
    /\ sync[c].pc = "fetch"
    /\ \E res \in GitResults :
          IF IsSyncError(res)
          THEN /\ sync' = [sync EXCEPT ![c].pc = "returned", ![c].res = res]
               /\ UNCHANGED <<fetched, fetches>>
          ELSE /\ sync' = [sync EXCEPT ![c].pc = "checkout"]
               /\ fetched' = TRUE
               /\ fetches' = fetches + 1
    /\ UNCHANGED notSync

\* Sync: wt.Checkout
SyncCheckout(c) ==
    /\ sync[c].pc = "checkout"
    /\ \E ok \in BOOLEAN :
          sync' = [sync EXCEPT ![c].checkout = @ + 1,
                               ![c].pc = IF ok THEN "pull" ELSE "returned",
                               ![c].res = IF ok THEN @ ELSE "error"]
    /\ UNCHANGED <<fetched, fetches>>
    /\ UNCHANGED notSync

\* Sync: wt.PullContext and the return
SyncPull(c) ==
    /\ sync[c].pc = "pull"
    /\ \E res \in GitResults :
          sync' = [sync EXCEPT ![c].pull = @ + 1,
                               ![c].pc = "returned",
                               ![c].res = IF IsSyncError(res) THEN res ELSE "nil"]
    /\ UNCHANGED <<fetched, fetches>>
    /\ UNCHANGED notSync

SyncNext ==
    \E c \in SyncCallers : SyncRead(c) \/ SyncFetch(c) \/ SyncCheckout(c) \/ SyncPull(c)

\* no repository handle is modelled
SyncOff ==
    /\ fetched = FALSE
    /\ fetches = 0
    /\ sync = <<>>

(***************************************************************************)
(* The cache store of one analyzer (SpecStore).  The tasks that share the  *)
(* Plugin object call GetCache (and StoreCache) from their goroutines;     *)
(* both read p.cache, call open when it is nil and assign the handle, with *)
(* no lock.  badger.Open takes a lock on the directory, so it fails while  *)
(* another handle on the directory is open.  When every task has returned, *)
(* Scanner.Scan runs the deferred Cleanup.                                 *)
(***************************************************************************)
StoreUsers == 1..StoreTasks

StoreInit ==
    /\ pcache = 0
    /\ handles = {}
    /\ reopens = 0
    /\ user = [c \in StoreUsers |-> "idle"]
    /\ cleaned = FALSE

\* GetCache / StoreCache: if p.cache == nil
StoreRead(c) ==
    /\ user[c] = "idle"
    /\ user' = [user EXCEPT ![c] = IF pcache = 0 THEN "open" ELSE "use"]
    /\ UNCHANGED <<pcache, handles, reopens, cleaned>>
    /\ UNCHANGED notStore

\* Plugin.open and p.cache = cache; an error of open is returned
StoreOpen(c) ==
    /\ user[c] = "open"
    /\ reopens' = IF handles = {} THEN reopens ELSE reopens + 1
    /\ \E ok \in BOOLEAN :
          IF ok /\ handles = {}
          THEN /\ handles' = handles \cup {c}
               /\ pcache' = c
               /\ user' = [user EXCEPT ![c] = "use"]
          ELSE /\ user' = [user EXCEPT ![c] = "failed"]
               /\ UNCHANGED <<pcache, handles>>
    /\ UNCHANGED cleaned
    /\ UNCHANGED notStore

\* p.cache.View / p.cache.Update, and the return of the task
StoreUse(c) ==
    /\ user[c] = "use"
    /\ \E ok \in BOOLEAN : user' = [user EXCEPT ![c] = IF ok THEN "done" ELSE "failed"]
    /\ UNCHANGED <<pcache, handles, reopens, cleaned>>
    /\ UNCHANGED notStore

\* the deferred Cleanup of Scanner.Scan, after eg.Wait: Pipeline.Cleanup down
\* to Plugin.Cleanup, which stops the client
StoreCleanup ==
    /\ ~cleaned
    /\ \A c \in StoreUsers : user[c] \in {"done", "failed"}
    /\ cleaned' = TRUE
    /\ UNCHANGED <<pcache, handles, reopens, user>>
    /\ UNCHANGED notStore

StoreNext ==
    \/ \E c \in StoreUsers : StoreRead(c) \/ StoreOpen(c) \/ StoreUse(c)
    \/ StoreCleanup

\* no cache store is modelled
StoreOff ==
    /\ pcache = 0
    /\ handles = {}
    /\ reopens = 0
    /\ user = <<>>
    /\ cleaned = FALSE

(***************************************************************************)
(* The pipeline IDs of one plan build (SpecID).  A pipeline of the         *)
(* configuration is taken with everything CreatePipelines reads of it: its *)
(* name, its strategy, its repository list and its steps, a step the list  *)
(* of its analyzer executions, each a name of the catalog and arguments.   *)
(***************************************************************************)
PipelineNames == {"p", "q"}

ArgLists == {<<>>, <<"x">>}

PluginExecConfigs == [name : BuiltinPluginNames, args : ArgLists]

StepConfigsOfSize(n) == [1..n -> PluginExecConfigs]

\* the step lists that hold at most b analyzer executions
RECURSIVE StepConfigLists(_)
StepConfigLists(b) ==
    {<<>>} \cup
    UNION {{<<s>> \o rest : s \in StepConfigsOfSize(n), rest \in StepConfigLists(b - n)}
           : n \in 1..b}

RepositoryLists == {<<>>, <<1>>, <<2, 1>>}

NamedPipelineConfigs ==
    [name : PipelineNames, strategy : PlanStrategies,
     repository : RepositoryLists, steps : StepConfigLists(MaxRefs)]

\* the Steps of one PipelineRepository: for every step of the pipeline's
\* configuration the Plugin objects of the names it lists (an object is
\* identified with its name); the arguments go to Setup only
NewSteps(pc) ==
    [si \in DOMAIN pc.steps |->
        [k \in DOMAIN pc.steps[si] |-> pc.steps[si][k].name]]

\* pipeline.Repos: one PipelineRepository per repository of the configuration
NewRepos(pc) ==
    [ri \in DOMAIN pc.repository |->
        [repository |-> pc.repository[ri], steps |-> NewSteps(pc)]]

IDInit ==
    /\ idcfg \in [1..2 -> NamedPipelineConfigs]
    /\ ids = <<>>
    /\ idpc = "build"

\* CreatePipelines, one pipeline of the loop up to pipeline.ID: a repository
\* that cannot be opened or a Setup that fails returns the error; with no
\* repository no Setup runs and pipeline.Repos[0] is out of range
PipelineID ==
    /\ idpc = "build"
    /\ LET pc == idcfg[Len(ids) + 1]
           repos == NewRepos(pc)
       IN \/ /\ repos = <<>>
             /\ idpc' = "panicked"
             /\ ids' = ids
          \/ /\ repos # <<>>
             /\ idpc' = "failed"
             /\ ids' = ids
          \/ /\ repos # <<>>
             /\ ids' = Append(ids, createPipelineID(pc.strategy, repos[1].steps))
             /\ idpc' = IF Len(ids) + 1 = Len(idcfg) THEN "built" ELSE "build"
    /\ UNCHANGED idcfg
    /\ UNCHANGED notID

IDNext == PipelineID

\* no pipeline ID is modelled
IDOff ==
    /\ idcfg = <<>>
    /\ ids = <<>>
    /\ idpc = "off"

(***************************************************************************)
(* The specifications.                                                     *)
(***************************************************************************)
vars == <<travVars, planVars, scanVars, pathVars, dataVars, syncVars, storeVars, idVars>>

InitTrav == TravInit /\ PlanOff /\ ScanOff /\ PathOff /\ DataOff /\ SyncOff /\ StoreOff /\ IDOff

InitPlan == PlanInit /\ TravOff /\ ScanOff /\ PathOff /\ DataOff /\ SyncOff /\ StoreOff /\ IDOff

InitScan == ScanInit /\ TravOff /\ PlanOff /\ PathOff /\ DataOff /\ SyncOff /\ StoreOff /\ IDOff

InitPath == PathInit /\ TravOff /\ PlanOff /\ ScanOff /\ DataOff /\ SyncOff /\ StoreOff /\ IDOff

InitData == DataInit /\ TravOff /\ PlanOff /\ ScanOff /\ PathOff /\ SyncOff /\ StoreOff /\ IDOff

InitSync == SyncInit /\ TravOff /\ PlanOff /\ ScanOff /\ PathOff /\ DataOff /\ StoreOff /\ IDOff

InitStore == StoreInit /\ TravOff /\ PlanOff /\ ScanOff /\ PathOff /\ DataOff /\ SyncOff /\ IDOff

InitID == IDInit /\ TravOff /\ PlanOff /\ ScanOff /\ PathOff /\ DataOff /\ SyncOff /\ StoreOff

SpecTrav == InitTrav /\ [][TravNext]_vars

SpecPlan == InitPlan /\ [][PlanNext]_vars

SpecPath == InitPath /\ [][PathNext]_vars

SpecScan == InitScan /\ [][ScanNext]_vars

\* the scans of the configurations of the size of the test's: one pipeline
\* with one analyzer reference
InitScanLive == InitScan /\ Len(scfg) = 1 /\ References(scfg[1].steps) = 1

\* the scan with its goroutines scheduled: a step that can be taken is taken
SpecScanLive == InitScanLive /\ [][ScanNext]_vars /\ WF_vars(ScanNext)

SpecID == InitID /\ [][IDNext]_vars

SpecStore == InitStore /\ [][StoreNext]_vars

SpecSync == InitSync /\ [][SyncNext]_vars

SpecData == InitData /\ [][DataNext]_vars

(***************************************************************************)
(* Claims about the traversals (SpecTrav).                                 *)
(***************************************************************************)
\* the traversal has returned and the callback never returned an error
Returned(s) == strategy = s /\ tpc = "done" /\ terr # "callback"

\* a linear history of N >= 1 commits whose committer times strictly
\* increase from the root to HEAD
LinearHistory(h) ==
    /\ h.len >= 1
    /\ h.merges = {}
    /\ \A j \in 2..h.len : h.when[j - 1] < h.when[j]

\* C4: AllCommits over a linear history of N >= 1 commits completes without
\* error, having invoked the callback exactly N-1 times, the revisions of
\* successive callbacks in strictly increasing committer-time order.
C4_AllCommitsLinear ==
    (Returned("allCommit") /\ LinearHistory(hist)) =>
        /\ terr = "nil"
        /\ Len(calls) = hist.len - 1
        /\ \A k \in 1..(Len(calls) - 1) :
              hist.when[calls[k].commit] < hist.when[calls[k + 1].commit]

\* C5: HeadOnly invokes the callback exactly once when the repository has a
\* commit, for the newest commit (HEAD, the first of the committer-time log)
\* and with an empty changes list; on a repository with no commit it invokes
\* the callback zero times and returns no error.
C5_HeadOnly ==
    (strategy = "headOnly" /\ tpc = "done") =>
        IF hist.len >= 1
        THEN /\ Len(calls) = 1
             /\ calls[1].commit = hist.len
             /\ calls[1].changes = NoChanges
        ELSE /\ calls = <<>>
             /\ terr = "nil"

\* C6: every revision AllMergeCommits invokes the callback for has more than
\* one parent and a non-first parent that a reference under refs/heads/pull/
\* points to; so a merge whose only pull-request-referenced parent is its
\* first parent is never delivered.
C6_OnlyPullRequestMerges ==
    strategy = "allMergeCommit" =>
        \A k \in DOMAIN calls :
            LET ps == ParentsOf(hist, calls[k].commit) IN
            /\ Len(ps) > 1
            /\ \E n \in 2..Len(ps) : ps[n] \in hist.pulls

\* C6's case: a callback was made while the history also holds a merge whose
\* first parent alone is a pull-request head, older than the delivered one
C6_Witness ==
    /\ strategy = "allMergeCommit"
    /\ tpc = "done"
    /\ Len(calls) >= 1
    /\ \E j \in hist.merges :
          /\ (j - 1) \in hist.pulls
          /\ Side(j) \notin hist.pulls
          /\ j < calls[1].commit

\* the history C0 <- C1 <- M2 <- M3 (commits 1, 2, 3, 4), M2 and M3 merging
\* the pull-request heads Side(3) and Side(4)
ScenarioHistory(h) ==
    /\ h.len = 4
    /\ h.merges = {3, 4}
    /\ h.pulls = {Side(3), Side(4)}

\* C7: on C0 <- C1 <- M2 <- M3 AllMergeCommits invokes the callback exactly
\* twice: for M2 with diff(tree of M2's first parent, tree of M2), then for
\* M3 with diff(tree of M2, tree of M3).
C7_MergeScenario ==
    (Returned("allMergeCommit") /\ ScenarioHistory(hist)) =>
        calls = << [commit |-> 3, changes |-> Diff(TreeOf(2), TreeOf(3))],
                   [commit |-> 4, changes |-> Diff(TreeOf(3), TreeOf(4))] >>

(***************************************************************************)
(* Claims about the plan build and the caches across runs (SpecPlan).      *)
(***************************************************************************)
\* C1: when no analyzer binary's mtime changed between two consecutive runs
\* of the configuration (and nothing deleted a cache in between), the second
\* run issues no Scan RPC: every revision delivered to every analyzer of
\* every step is a cache hit.
C1_SecondRunAllHits ==
    (ppc = "idle" /\ run >= 2 /\ prevMtime = runMtime) => rpcs = {}

\* the entries of the stores under the directory of repository ri of
\* pipeline pi
RepoEntries(dsk, pi, ri) ==
    {e \in dsk : /\ e.path.pid = PipelineIDOf(cfg, pi)
                 /\ e.path.repo = cfg[pi].repos[ri]}

\* C2: when the plan build finds that analyzer A of step k has a later mtime
\* than the registry records, it deletes A's cache and the cache of every
\* step k+1..n in every repository of every pipeline with that step list,
\* and leaves the caches of steps 0..k-1 untouched.  (Stated for a build
\* in which A is the only analyzer found updated.)
C2_CascadeDeletesDownstream ==
    ppc = "built" =>
      \A f \in found :
        (found = {f} /\ f.recorded) =>
          \A pi \in DOMAIN cfg : cfg[pi].steps = cfg[f.pi].steps =>
            \A ri \in DOMAIN cfg[pi].repos :
              /\ \A e \in RepoEntries(disk, pi, ri) :
                    /\ ~(e.path.step = f.si - 1 /\ e.path.plugin = f.plugin)
                    /\ e.path.step <= f.si - 1
              /\ \A e \in RepoEntries(disk0, pi, ri) :
                    e.path.step < f.si - 1 => e \in disk

\* C3: the cascade run for one repository of one pipeline deletes no cache
\* directory of another repository or another pipeline.
C3_CascadeStaysInRepository ==
    [][ppc = "cascade" =>
         \A e \in disk \ disk' :
            /\ e.path.pid = PipelineIDOf(cfg, pos.pi)
            /\ e.path.repo = cfg[pos.pi].repos[pos.ri]]_vars

(***************************************************************************)
(* Claims about the orchestrator (SpecScan).                               *)
(***************************************************************************)
\* the analyzer tasks of the step before the step of t, in the repository
\* and pipeline of t
Upstream(t) == StepTasks(scfg, t.pi, t.ri, t.si - 1)

\* the upstream task ta has emitted its result for the revision key
Emitted(ta, key) ==
    /\ task[ta].pc = "done"
    /\ \E n \in DOMAIN TaskRevs(scfg, ta) : TaskRevs(scfg, ta)[n] = key

\* C8: when analyzer A of step k has emitted its typed result for a
\* revision, the scan context passed to analyzer B of step k+1 (same
\* pipeline and repository) for that revision contains A's result, so that
\* B's GetData for A's type finds it.
C8_DownstreamSeesUpstream ==
    \A tb \in DOMAIN task : \A ta \in Upstream(tb) :
        \A n \in DOMAIN task[tb].seen :
            (TaskPlugin(scfg, ta) # TaskPlugin(scfg, tb) /\
             Emitted(ta, task[tb].seen[n].key)) =>
                TypeOf(TaskPlugin(scfg, ta)) \in task[tb].seen[n].names

\* the members of a group: the analyzer tasks of the current step, the
\* repository goroutines of a pipeline, the pipeline goroutines
MembersFinished(g) ==
    IF g.level = "step"
    THEN \A t \in StepTasks(scfg, g.pi, g.ri, stepAt[<<g.pi, g.ri>>]) : Finished(t)
    ELSE IF g.level = "pipeline"
    THEN \A ri \in DOMAIN scfg[g.pi].repos : gret[StepGroup(g.pi, ri)] # NotReturned
    ELSE \A pi \in DOMAIN scfg : gret[PipelineGroup(pi)] # NotReturned

\* the group has more than one member
HasSiblings(g) ==
    IF g.level = "step"
    THEN Cardinality(StepTasks(scfg, g.pi, g.ri, stepAt[<<g.pi, g.ri>>])) > 1
    ELSE IF g.level = "pipeline" THEN Len(scfg[g.pi].repos) > 1
    ELSE Len(scfg) > 1

C10_PeersRunToCompletion ==
    \A t \in DOMAIN task :
        (task[t].pc = "failed" /\ task[t].err.cause = "rpc") =>
            /\ \A u \in StepTasks(scfg, t.pi, t.ri, t.si) :
                  /\ task[u].err.cause # "canceled"
                  /\ task[u].pc = "done" => task[u].rev > Len(TaskRevs(scfg, u))
            /\ gret[StepGroup(t.pi, t.ri)] # NotReturned =>
                  \A u \in StepTasks(scfg, t.pi, t.ri, t.si) : Finished(u)

\* C10's case: the step has reported the RPC error of one task while a peer
\* that was still running when the task failed has delivered every revision
C10_Witness ==
    \E t, u \in DOMAIN task :
        /\ t # u
        /\ u \in StepTasks(scfg, t.pi, t.ri, t.si)
        /\ task[t].pc = "failed"
        /\ task[t].err.cause = "rpc"
        /\ task[u].pc = "done"
        /\ task[u].late
        /\ gret[StepGroup(t.pi, t.ri)] = task[t].err

\* C11: within one (pipeline, repository) no analyzer task of step k+1
\* starts (no sync, no cache lookup, no RPC) before every analyzer task of
\* step k has completed.
C11_StepsSequential ==
    \A t \in DOMAIN task :
        task[t].pc # "wait" =>
            \A u \in Upstream(t) : task[u].pc = "done"

\* C11's case: a task of a second step is in its RPC, the step before it
\* having an analyzer task
C11_Witness ==
    \E t \in DOMAIN task :
        /\ t.si = 2
        /\ task[t].pc = "rpc"
        /\ Upstream(t) # {}

\* C12: within one pipeline run, for every repository, analyzer and
\* revision at most one Scan RPC is issued to the analyzer for the revision,
\* also when the analyzer is referenced by more than one step or more than
\* once in a step.
C12_AtMostOneRPC ==
    \A t, u \in DOMAIN task :
        (/\ t # u
         /\ t.pi = u.pi
         /\ t.ri = u.ri
         /\ TaskPlugin(scfg, t) = TaskPlugin(scfg, u)) =>
            task[t].sent \cap task[u].sent = {}

\* C13: on every exit path of Scanner.Scan (success, a scan error, a
\* plan-build failure after some analyzer was set up) every analyzer
\* subprocess that was spawned has been killed when Scan returns.
C13_AllSubprocessesKilled ==
    spc \in {"returned", "failed"} => procs \subseteq killed

\* the Scan RPCs in flight on the client of analyzer plg: the tasks that
\* are inside Client.Scan on it
InFlight(plg) ==
    {t \in DOMAIN task : TaskPlugin(scfg, t) = plg /\ task[t].pc = "rpc"}

\* C14: at any moment at most one Scan RPC is in flight on a given analyzer
\* client, also when the analyzer is referenced by several repositories or
\* by several pipelines that run concurrently.
C14_OneRPCInFlight ==
    \A plg \in BuiltinPluginNames : Cardinality(InFlight(plg)) <= 1

(***************************************************************************)
(* Further claims about the plan build (SpecPlan).                         *)
(***************************************************************************)
\* the configurations that list the pipelines of c in another order
Reorderings(c) ==
    {[i \in DOMAIN c |-> c[f[i]]] : f \in Permutations(DOMAIN c)}

\* Plugin.CachePath of every analyzer once CreatePipelines has gone through
\* the pipelines pi, pi + 1, ... of c
RECURSIVE PlanCachePaths(_, _, _)
PlanCachePaths(cp, c, pi) ==
    IF pi > Len(c) THEN cp
    ELSE PlanCachePaths(
           AssignCachePaths(cp, PipelineIDOf(c, pi), c[pi], Positions(c[pi])),
           c, pi + 1)

\* the cache directories and their contents after a run of configuration c
\* that started without any cache
FirstRunDisk(c) ==
    LET cp == PlanCachePaths([g \in BuiltinPluginNames |-> NoPath], c, 1)
    IN StoreCache({}, cp, Misses(c, {}, cp))

\* C15: concurrent pipelines share no mutable state: running the
\* configuration with the pipelines listed in another order gives the same
\* final contents in every cache directory.  (Stated for the first run,
\* which starts without caches.)
C15_PipelineOrderIrrelevant ==
    (ppc = "idle" /\ run = 1) =>
        \A c \in Reorderings(cfg) : FirstRunDisk(c) = disk

(***************************************************************************)
(* Further claims about the orchestrator (SpecScan).                       *)
(***************************************************************************)
\* the RPC of task t failed, and no other task of the run failed
OnlyRPCFailure(t) ==
    /\ task[t].pc = "failed"
    /\ task[t].err.cause = "rpc"
    /\ \A u \in DOMAIN task : u # t => task[u].pc # "failed"

\* C16: when an analyzer's RPC fails on the i-th revision of a traversal
\* that started with an empty cache, then at the return of Scan the
\* analyzer's cache holds an entry for each of the first i-1 revisions and
\* none for the i-th or a later one, and Scan returns that RPC error.  (An
\* analyzer's store starts either complete or empty, so a traversal that got
\* as far as an RPC started on an empty one.)
C16_RPCFailureLeavesPrefix ==
    spc = "returned" =>
        \A t \in DOMAIN task :
            OnlyRPCFailure(t) =>
                LET revs == TaskRevs(scfg, t)
                    plg == TaskPlugin(scfg, t)
                IN /\ \A n \in 1..(task[t].rev - 1) :
                         [plugin |-> plg, key |-> revs[n]] \in scache
                   /\ \A n \in task[t].rev..Len(revs) :
                         [plugin |-> plg, key |-> revs[n]] \notin scache
                   /\ gret[ScanGroup] = task[t].err

(***************************************************************************)
(* Claims about the pipeline ID (SpecPlan).                                *)
(***************************************************************************)
Count(x, q) == Cardinality({i \in DOMAIN q : q[i] = x})

\* the source-repo IDs of the analyzers of a step in lexicographic order
SortedIDs(step) ==
    CHOOSE q \in [DOMAIN step -> BuiltinPluginNames] :
        /\ \A i \in 1..(Len(q) - 1) : q[i] <= q[i + 1]
        /\ \A x \in BuiltinPluginNames : Count(x, q) = Count(x, step)

RECURSIVE Flatten(_)
Flatten(ss) == IF ss = <<>> THEN <<>> ELSE Head(ss) \o Flatten(Tail(ss))

\* strategy : s0_id_0 : s0_id_1 : ... : s1_id_0 : ...
ExpectedID(pl) ==
    <<pl.strategy>> \o Flatten([i \in DOMAIN pl.steps |-> SortedIDs(pl.steps[i])])

\* C17: pipeline.id is a function of the strategy and of the analyzer IDs of
\* the steps, sorted inside each step and concatenated in step order: every
\* build over the configuration uses that id, and reordering the analyzers
\* inside a step does not change it.
C17_PipelineIDPure ==
    /\ \A pi \in DOMAIN cfg :
          /\ PipelineIDOf(cfg, pi) = ExpectedID(cfg[pi])
          /\ \A si \in DOMAIN cfg[pi].steps :
                \A f \in Permutations(DOMAIN cfg[pi].steps[si]) :
                    createPipelineID(cfg[pi].strategy,
                        [cfg[pi].steps EXCEPT
                            ![si] = [i \in DOMAIN @ |-> cfg[pi].steps[si][f[i]]]])
                    = PipelineIDOf(cfg, pi)
    /\ \A g \in DOMAIN cachePath :
          cachePath[g] # NoPath =>
              \E pi \in DOMAIN cfg : cachePath[g].pid = ExpectedID(cfg[pi])
    /\ \A e \in disk : \E pi \in DOMAIN cfg : e.path.pid = ExpectedID(cfg[pi])

\* C17's case: the plan has been built a second time over a configuration
\* with a step that lists two analyzers out of order
C17_Witness ==
    /\ run = 2
    /\ ppc = "built"
    /\ disk # {}
    /\ \E pi \in DOMAIN cfg : \E si \in DOMAIN cfg[pi].steps :
          /\ Len(cfg[pi].steps[si]) >= 2
          /\ cfg[pi].steps[si][1] > cfg[pi].steps[si][2]

(***************************************************************************)
(* Claims about the version registry (SpecPlan).                           *)
(***************************************************************************)
\* the analyzers the configuration references
Referenced(c) == {TaskPlugin(c, t) : t \in Tasks(c)}

\* C18: IsUpdated(a) is true exactly when the registry has no entry for a or
\* a's setup-time mtime is strictly after the stored time; Update(a) inserts
\* version 1 when there is no entry and otherwise adds one to the version
\* and overwrites the time.  Hence after a first run and a second run made
\* after the binary's mtime advanced, the registry holds version 2 and the
\* new mtime for the analyzer.
C18_RegistryVersions ==
    /\ \A g \in DOMAIN registry : \A mt \in 1..(MaxRuns + 1) :
          /\ IsUpdated(registry, g, mt) <=>
                (registry[g] = NoVersion \/ mt > registry[g].time)
          /\ Update(registry, g, mt)[g] =
                [version |-> IF registry[g] = NoVersion THEN 1
                             ELSE registry[g].version + 1,
                 time |-> mt]
          /\ \A h \in DOMAIN registry \ {g} : Update(registry, g, mt)[h] = registry[h]
    /\ (ppc = "idle" /\ run = 2) =>
          \A g \in Referenced(cfg) :
              runMtime[g] > prevMtime[g] =>
                  registry[g] = [version |-> 2, time |-> runMtime[g]]

(***************************************************************************)
(* Claims about repository declarations (SpecPath).                        *)
(***************************************************************************)
\* the URL has the form http://host/path or https://host/path; the text
\* after the scheme
AfterScheme(u) ==
    IF HasPrefix(u, <<"h", "t", "t", "p", ":", "/", "/">>, 1)
    THEN SubSeq(u, 8, Len(u))
    ELSE IF HasPrefix(u, <<"h", "t", "t", "p", "s", ":", "/", "/">>, 1)
    THEN SubSeq(u, 9, Len(u))
    ELSE <<>>

\* C19: a declared URL http://host/path or https://host/path resolves to
\* the relative path host/path under the mount; any other non-empty URL
\* makes the plan build fail with InvalidRepositoryPath carrying the URL,
\* which a caller can still match after every wrapping.
C19_RepoPath ==
    rpc \notin {"cfg", "off"} =>
        IF AfterScheme(repoURL) # <<>>
        THEN /\ repoErr = <<>>
             /\ repoPath = IF rpc = "resolved" THEN AfterScheme(repoURL)
                            ELSE MountJoin(AfterScheme(repoURL))
        ELSE AsInvalidRepositoryPath(repoErr) = <<ErrInvalidRepositoryPath(repoURL)>>

(***************************************************************************)
(* Claims about the scan of the repository's own test (SpecScanLive).      *)
(***************************************************************************)
\* the configuration of TestTreport: one allMergeCommit pipeline, one
\* repository, one step with the built-in analyzer 1 ("size"), and a scanner
\* declaration of that name
TestConfig ==
    /\ scfg = <<[strategy |-> "allMergeCommit", repos |-> <<1>>, steps |-> <<<<1>>>>]>>
    /\ declared = <<1>>

\* clone, sync, traversal, RPC and cache operations succeeded so far
NoFailure ==
    /\ spc # "failed"
    /\ \A t \in DOMAIN task : task[t].pc # "failed"

\* Scan returned nil with the step resolved to the built-in analyzer
ReturnedNil ==
    /\ spc = "returned"
    /\ gret[ScanGroup] = NoError
    /\ \A t \in DOMAIN task : /\ task[t].pc = "done"
                                /\ pluginMap[TaskPlugin(scfg, t)].builtin

\* C20: the scan of the test configuration, where a scanner declaration has
\* the name of the built-in size analyzer, terminates, and when no clone,
\* sync, traversal, RPC or cache operation failed it returns no error, the
\* declaration skipped and the step resolved to the built-in analyzer.
C20_TestTreport ==
    TestConfig ~> (/\ spc \in {"returned", "failed"}
                   /\ NoFailure => ReturnedNil)

C20_Witness == TestConfig /\ NoFailure /\ ReturnedNil /\ scache # {}

(***************************************************************************)
(* Claims about the envelope of a result (SpecData).                       *)
(***************************************************************************)
\* what a GetData call that has just returned leaves behind
RoundTrip ==
    IF MessageName(dbefore) \in DOMAIN produced
    THEN dret = "nil" /\ dtarget = produced[MessageName(dbefore)]
    ELSE dret = "NoData" /\ dtarget = dbefore

\* C21: GetData with a target of the type of a stored message recovers the
\* message the last Scan stored under that name, whatever the target held;
\* GetData for a type without an entry returns NoData and leaves the target
\* as it was.
C21_EnvelopeRoundTrip == [][(\E m \in Messages : DataGet(m)) => RoundTrip']_vars

C21_Witness ==
    /\ dret = "nil"
    /\ dbefore.size # 0
    /\ dtarget.size = 0
    /\ DOMAIN produced = MessageTypes

(***************************************************************************)
(* Further claims about the traversals (SpecTrav).                         *)
(***************************************************************************)
\* the replaying traversal s has returned, no callback having returned an
\* error, and its list was not empty
Replayed(s) == Returned(s) /\ list # <<>>

\* the commits of the enumerated list the callback was never invoked for
Uncalled == {c \in Range(list) : \A k \in DOMAIN calls : calls[k].commit # c}

\* C22: when AllCommits or AllMergeCommits has gone through its list, the one
\* enumerated (selected) commit without a callback is the oldest in
\* committer-time order, and every other commit of the list got exactly one
\* callback.
C22_OldestSkipped ==
    (Replayed("allCommit") \/ Replayed("allMergeCommit")) =>
        /\ \E c \in Range(list) :
              /\ Uncalled = {c}
              /\ \A d \in Range(list) : hist.when[c] <= hist.when[d]
        /\ \A d \in Range(list) \ Uncalled :
              Cardinality({k \in DOMAIN calls : calls[k].commit = d}) = 1

\* C23: in AllCommits and AllMergeCommits the changes of the first replayed
\* commit are the diff from the tree of its first parent to its own tree,
\* and the changes of every later replayed commit are the diff from the tree
\* of the commit replayed before it to its own tree.
C23_ChangesAgainstPrevious ==
    strategy \in {"allCommit", "allMergeCommit"} =>
        \A k \in DOMAIN calls :
            calls[k].changes =
                IF k = 1
                THEN <<TreeOf(ParentsOf(hist, calls[1].commit)[1]), TreeOf(calls[1].commit)>>
                ELSE <<TreeOf(calls[k - 1].commit), TreeOf(calls[k].commit)>>

\* C23's case: two commits were replayed, the second one not a child of the
\* first
C23_Witness ==
    /\ strategy = "allCommit"
    /\ Len(calls) >= 2
    /\ ParentsOf(hist, calls[2].commit) # <<>>
    /\ ParentsOf(hist, calls[2].commit)[1] # calls[1].commit

(***************************************************************************)
(* Further claims about the analyzer tasks (SpecScan).                     *)
(***************************************************************************)
\* the step of task t from its lookup of the revision it was delivered
AfterLookup(t) ==
    LET plg == TaskPlugin(scfg, t)
        key == TaskRevs(scfg, t)[task[t].rev]
        res == Response(plg, key)
    IN \/ /\ task'[t].pc = "failed"
          /\ task'[t].err.cause = "cache"
          /\ task'[t].sent = task[t].sent
          /\ scache' = scache
       \/ /\ [plugin |-> plg, key |-> key] \in scache
          /\ task'[t].pc = "walk"
          /\ res \in task'[t].data
          /\ task'[t].sent = task[t].sent
          /\ scache' = scache
       \/ /\ [plugin |-> plg, key |-> key] \notin scache
          /\ task'[t].pc = "rpc"
          /\ task'[t].sent = task[t].sent \cup {key}
          /\ key \notin task[t].sent
          /\ scache' = scache

\* the step of task t from the return of its RPC
AfterRPC(t) ==
    LET plg == TaskPlugin(scfg, t)
        key == TaskRevs(scfg, t)[task[t].rev]
    IN /\ task'[t].sent = task[t].sent
       /\ \/ /\ task'[t].pc = "walk"
             /\ task'[t].rev = task[t].rev + 1
             /\ scache' = scache \cup {[plugin |-> plg, key |-> key]}
          \/ /\ task'[t].pc = "failed"
             /\ scache' = scache

\* C24: for each scan context an analyzer task looks the revision up in the
\* cache first; on a hit it stores the cached envelope into the context and
\* issues no RPC and no cache write; on a miss it issues one RPC and, when
\* that succeeds, writes the result under the revision; a lookup error other
\* than the missing key is returned and no RPC is issued.
C24_LookupFirst ==
    [][\A t \in DOMAIN task :
          task'[t] # task[t] =>
             /\ (task[t].pc = "walk" /\ task[t].rev <= Len(TaskRevs(scfg, t)))
                   => AfterLookup(t)
             /\ task[t].pc = "rpc" => AfterRPC(t)
             /\ task'[t].pc = "rpc" => task[t].pc = "walk"]_vars

\* C24's case: one task had a hit and then a lookup error, another one a
\* miss whose result was written
C24_Witness ==
    \E t, u \in DOMAIN task :
        /\ task[t].pc = "failed"
        /\ task[t].err.cause = "cache"
        /\ task[t].rev > 1
        /\ task[t].sent = {}
        /\ task[u].sent # {}
        /\ task[u].rev > 1
        /\ [plugin |-> TaskPlugin(scfg, u), key |-> TaskRevs(scfg, u)[1]] \in scache

(***************************************************************************)
(* Claims about Repository.Sync (SpecSync).                                *)
(***************************************************************************)
\* C25: on one repository handle the fetch of the remote refs is executed at
\* most once however many Sync calls are made, also when the calls overlap;
\* every Sync call that gets past the fetch does the checkout and, after it,
\* the pull; an already-up-to-date answer of fetch or pull is no error.
C25_FetchOnce ==
    /\ fetches <= 1
    /\ \A c \in SyncCallers :
          /\ sync[c].pc = "pull" => sync[c].checkout = 1
          /\ (sync[c].pc = "returned" /\ sync[c].res = "nil") =>
                sync[c].checkout = 1 /\ sync[c].pull = 1
          /\ sync[c].res # "NoErrAlreadyUpToDate"

(***************************************************************************)
(* Further claims about the plan (SpecPlan).                               *)
(***************************************************************************)
\* C26: after the plan build the cache path used for the analyzer of every
\* (pipeline, repository, step, analyzer) position is root_cache /
\* pipeline.id / repo.id / 3-digit step index / source_repo_id of that
\* position, also when the analyzer is attached to several steps,
\* repositories or pipelines.
C26_CachePathPerPosition ==
    ppc = "built" =>
        \A t \in Tasks(cfg) :
            cachePath[TaskPlugin(cfg, t)] =
                [pid |-> PipelineIDOf(cfg, t.pi), repo |-> TaskRepo(cfg, t),
                 step |-> t.si - 1, plugin |-> TaskPlugin(cfg, t)]

(***************************************************************************)
(* Further claims about the analyzer subprocesses (SpecScan).              *)
(***************************************************************************)
\* the subprocesses of analyzer plg that are running
Alive(plg) == {p \in procs \ killed : p.plugin = plg}

\* C27: for each analyzer name the subprocess is started on the first Setup
\* only: at any time of a run at most one subprocess exists per analyzer
\* name, however many steps, repositories and pipelines reference it, and
\* once started it stays alive until Cleanup.
C27_OneSubprocessPerName ==
    \A plg \in BuiltinPluginNames :
        /\ Cardinality(Alive(plg)) <= 1
        /\ (spc \in {"start", "scan"} /\ \E p \in procs : p.plugin = plg)
              => Alive(plg) # {}

(***************************************************************************)
(* Claims about the cache store of an analyzer (SpecStore).                *)
(***************************************************************************)
\* C28: the cache store of an analyzer is opened at most once per run, on
\* first use, under every interleaving of the tasks that share the analyzer,
\* and every opened store is closed when the plan is cleaned up.
C28_OpenOnceCloseAtCleanup ==
    /\ reopens = 0
    /\ cleaned => handles = {}

(***************************************************************************)
(* Further claims about the invalidation cascade (SpecPlan).               *)
(***************************************************************************)
\* C29: when the plan build finds an analyzer of step k updated, the whole
\* of step k is stale: in the scan that follows every analyzer of step k and
\* of every later step of that repository gets a cache miss (a Scan RPC) for
\* every revision, the analyzers of step k with an unchanged binary
\* included.
C29_WholeStepStale ==
    (ppc = "idle" /\ run >= 1) =>
        \A f \in found : \A t \in Tasks(cfg) :
            (t.pi = f.pi /\ t.ri = f.ri /\ t.si >= f.si) =>
                \A key \in Revisions(TaskRepo(cfg, t)) :
                    [plugin |-> TaskPlugin(cfg, t), key |-> key] \in rpcs

(***************************************************************************)
(* Claims about the scan context of a traversal (SpecData).                *)
(***************************************************************************)
\* C30: within one traversal the data of the scan context is empty at the
\* first callback and the host never clears it between callbacks: an entry
\* is still there at the next callback unless an envelope of the same name
\* has replaced it, and the plugin-to-type entry of an analyzer keeps the
\* type name of the first result of the analyzer.
C30_DataKeptAcrossCallbacks ==
    [][/\ (drev = 0 /\ drev' = 1) => dctx'.Data = <<>>
       /\ drev' # drev => dctx' = dctx
       /\ \A name \in DOMAIN dctx.Data :
             /\ name \in DOMAIN dctx'.Data
             /\ dctx'.Data[name] # dctx.Data[name] =>
                   /\ dctx'.Data[name].name = name
                   /\ dctx'.Data[name] = ToResponse(produced'[name])
       /\ \A plg \in DOMAIN dctx.pluginToType :
             /\ plg \in DOMAIN dctx'.pluginToType
             /\ dctx'.pluginToType[plg] = dctx.pluginToType[plg]
       /\ \A plg \in DOMAIN dctx'.pluginToType \ DOMAIN dctx.pluginToType :
             dctx'.pluginToType[plg] \in DOMAIN dctx'.Data
      ]_vars

\* C30's case: at the second callback the context holds envelopes of both
\* types, all from one analyzer, whose entry names a single type
C30_Witness ==
    /\ drev = 2
    /\ DOMAIN dctx.Data = MessageTypes
    /\ DOMAIN dctx.pluginToType = {1}

(***************************************************************************)
(* C31.  For a pipeline whose strategy is none of allMergeCommit,          *)
(* allCommit and headOnly, the scan does nothing: none of the pipeline's   *)
(* analyzer tasks looks up the base branch, syncs or starts a traversal    *)
(* (it never leaves the states before them and never fails), none is       *)
(* delivered a revision, looks a revision up in a cache store or sends a   *)
(* Scan RPC, and neither the groups of its repositories nor the group of   *)
(* the pipeline hold or return an error.                                   *)
(***************************************************************************)
C31_UnknownStrategyDoesNothing ==
    \A pi \in DOMAIN scfg :
        scfg[pi].strategy = OtherStrategy =>
            /\ \A t \in Tasks(scfg) :
                  t.pi = pi =>
                      /\ task[t].pc \in {"wait", "sync", "done"}
                      /\ task[t].rev = 0
                      /\ task[t].seen = <<>>
                      /\ task[t].sent = {}
                      /\ task[t].data = {}
                      /\ task[t].err = NoError
            /\ \A g \in {PipelineGroup(pi)} \cup
                        {StepGroup(pi, ri) : ri \in DOMAIN scfg[pi].repos} :
                  /\ gerr[g] = NoError
                  /\ gret[g] \in {NotReturned, NoError}

\* a pipeline of two steps with such a strategy has been scanned to the end
C31_Witness ==
    /\ spc = "returned"
    /\ \E pi \in DOMAIN scfg :
          /\ scfg[pi].strategy = OtherStrategy
          /\ Len(scfg[pi].steps) = 2
          /\ \A t \in Tasks(scfg) : t.pi = pi => task[t].pc = "done"
          /\ gret[PipelineGroup(pi)] = NoError
          /\ gret[ScanGroup] = NoError

(***************************************************************************)
(* C32.  During one plan build (the binaries are not replaced while it     *)
(* runs) the version of an analyzer in the version registry is incremented *)
(* at most once, however many steps, repositories and pipelines reference  *)
(* the analyzer: at every point of the build and after it the version is   *)
(* the one the registry held when the build started or that version plus   *)
(* one, and it is plus one only for an analyzer that had no record or      *)
(* whose binary is newer than the recorded time; the record then carries   *)
(* the binary's modification time.  (An analyzer that is only listed in    *)
(* steps the cascade skips is not incremented in that build.)              *)
(***************************************************************************)
C32_IncrementedOncePerBuild ==
    ppc # "off" =>
        \A g \in BuiltinPluginNames :
            /\ registry[g].version \in
                  {registry0[g].version, registry0[g].version + 1}
            /\ registry[g].version = registry0[g].version + 1 =>
                  /\ \/ registry0[g] = NoVersion
                     \/ After(runMtime[g], registry0[g].time)
                  /\ registry[g].time = runMtime[g]
            /\ registry[g].version = registry0[g].version =>
                  registry[g] = registry0[g]

\* the second build has gone from version 1 to version 2 for an analyzer
\* that both pipelines reference, one of them in two repositories
C32_Witness ==
    /\ ppc = "built"
    /\ Len(cfg) = 2
    /\ \E g \in BuiltinPluginNames :
          /\ registry0[g].version = 1
          /\ registry[g].version = 2
          /\ \A pi \in DOMAIN cfg :
                \E si \in DOMAIN cfg[pi].steps : g \in Range(cfg[pi].steps[si])
          /\ \E pi \in DOMAIN cfg : Len(cfg[pi].repos) = 2


(***************************************************************************)
(* Claims about the pipeline ID across pipelines (SpecID).                 *)
(***************************************************************************)
\* the sorted analyzer IDs of the steps of a pipeline, one step after another
ConcatenatedIDs(pc) ==
    Flatten([si \in DOMAIN pc.steps |->
                SortedIDs([k \in DOMAIN pc.steps[si] |-> pc.steps[si][k].name])])

(***************************************************************************)
(* C33.  Two pipelines of a build with the same strategy get the same      *)
(* pipeline.ID whenever the sorted analyzer IDs of their steps, one step   *)
(* after another, make the same sequence: where the step boundaries fall,  *)
(* the repository lists, the analyzers' arguments and the pipelines' names *)
(* do not enter the ID.                                                    *)
(***************************************************************************)
C33_IDIgnoresStepBoundaries ==
    (/\ Len(ids) = 2
     /\ idcfg[1].strategy = idcfg[2].strategy
     /\ ConcatenatedIDs(idcfg[1]) = ConcatenatedIDs(idcfg[2]))
    => ids[1] = ids[2]

\* two pipelines that differ in all four got one ID
C33_Witness ==
    /\ Len(ids) = 2
    /\ ids[1] = ids[2]
    /\ idcfg[1].strategy = idcfg[2].strategy
    /\ ConcatenatedIDs(idcfg[1]) = ConcatenatedIDs(idcfg[2])
    /\ Len(idcfg[1].steps) = 1
    /\ Len(idcfg[2].steps) = 2
    /\ idcfg[1].name # idcfg[2].name
    /\ idcfg[1].repository # idcfg[2].repository
    /\ idcfg[1].steps[1][1].args # idcfg[2].steps[1][1].args

====
